---- MODULE Spec2Model ----
(***************************************************************************)
(* Model of the exchange gRPC service                                      *)
(* (doc/lesson-3.2.7-exchange-grpc/src/server.rs): the shared              *)
(* ExchangeState (order table, balance table, next-order-id counter, each  *)
(* behind its own tokio RwLock) and the five request handlers of           *)
(* ExchangeServiceImpl.  A handler runs from one lock acquisition to the   *)
(* next in one step: between getting a guard and dropping it no handler    *)
(* awaits, and the guarded data is reached through the guard only, so a    *)
(* critical section is atomic for every other task.  The blog server       *)
(* (blog-server/src), which shares nothing with the exchange service, is   *)
(* modelled next to it: its registration and its post operations, query by *)
(* query.                                                                  *)
(***************************************************************************)
EXTENDS Integers, Naturals, Sequences, FiniteSets, TLC

(***************************************************************************)
(* Bounds of the model.                                                    *)
(***************************************************************************)
\* number of create_order calls that can be between their two critical
\* sections at the same time
NumCalls == 2
\* cap on the number of ids the counter issues in one behaviour
MaxOrders == 2
\* number of stream_quotes subscriptions opened in one behaviour
MaxSubs == 1
\* cap on the number of ticks of one producer's interval
MaxTicks == 1
\* the same cap where one subscription is followed on its own
MaxStreamTicks == 2
\* cap on the register calls that get past the username check at a time
\* when the users table has room
MaxUsers == 2
\* cap on the rows the posts table is given in one behaviour
MaxPosts == 1

(***************************************************************************)
(* Values carried by requests.                                             *)
(***************************************************************************)
Users == {"u1", "u2"}
Currencies == {"USD"}
TradedSymbols == {"BTC", "ETH"}
Symbols == TradedSymbols \cup {""}
\* readings of the wall clock (Utc::now().timestamp())
Timestamps == {1000}

\* f64: a NaN or a number; every comparison with a NaN is false
F64(n) == [nan |-> FALSE, v |-> n]
NaN == [nan |-> TRUE, v |-> 0]
F64LeZero(x) == (~x.nan) /\ x.v <= 0
F64GtZero(x) == (~x.nan) /\ x.v > 0

\* wire values of the proto enums OrderType and OrderStatus
Buy == 0
Sell == 1
Pending == 0
Cancelled == 1

Prices == {F64(0 - 1), F64(0), F64(50000), NaN}
Quantities == {0 - 1, 0, 100}
\* the i32 field `type` can carry a value outside the enum
OrderTypes == {Buy, Sell, 7}
\* the ids the counter can issue, and one it never issues
OrderIds == 1 .. (MaxOrders + 1)

CreateOrderRequests ==
  [user_id : Users, symbol : Symbols, type : OrderTypes,
   price : Prices, quantity : Quantities]
\* the requests of the concurrent specification: one valid price, quantity
\* and side, and every way of failing the validation
CoreCreateOrderRequests ==
  {r \in CreateOrderRequests :
     /\ r.type = Buy
     /\ r.price \in {F64(0 - 1), F64(0), F64(50000)}
     /\ r.quantity \in {0 - 1, 0, 100}
     /\ (r.symbol = "" \/ F64LeZero(r.price) \/ r.quantity <= 0)
          => r.user_id = "u1" /\ r.symbol # "ETH"}
CancelOrderRequests == [user_id : Users, order_id : OrderIds]
GetActiveOrdersRequests == [user_id : Users, symbol : Symbols]
GetBalanceRequests == [user_id : Users, currency : Currencies]
\* symbols lists: empty, one symbol, two symbols, a symbol with no base price
StreamQuotesRequests ==
  {[symbols |-> l] : l \in {<< >>, <<"BTC">>, <<"BTC", "ETH">>, <<"DOGE">>}}

\* the requests of the specification of the whole service: one order
\* variant, one rejected request, the unfiltered listing, two symbols lists
ServiceCreateOrderRequests ==
  {r \in CoreCreateOrderRequests :
     r.user_id = "u1" /\ r.symbol = "BTC" /\ r.price \in {F64(0), F64(50000)}
       /\ r.quantity = 100}
ServiceCancelOrderRequests ==
  {r \in CancelOrderRequests : r.user_id = "u1"}
ServiceGetActiveOrdersRequests ==
  {r \in GetActiveOrdersRequests : r.symbol = ""}
ServiceStreamQuotesRequests ==
  {r \in StreamQuotesRequests : Len(r.symbols) <= 1 /\ r.symbols # <<"DOGE">>}

\* readings of the wall clock in the producer's for loop
StreamTimestamps == {1000, 1098}
\* symbols lists of a subscription followed on its own: empty, one symbol, a
\* symbol listed twice around another, symbols with other base prices
OneStreamQuotesRequests ==
  {[symbols |-> l] :
     l \in {<< >>, <<"BTC">>, <<"ETH", "BTC", "ETH">>, <<"DOGE", "USD">>}}


VARIABLES
  orders,         \* ExchangeState.orders: id -> Order
  balances,       \* ExchangeState.balances: user_id -> currency -> balance
  next_order_id,  \* ExchangeState.next_order_id
  creating,       \* the create_order calls that hold an id and wait for
                  \* orders.write(), in allocation order: request, order,
                  \* and the ids returned when the call started
  response,       \* the response the latest step returned, if it returned
  issued,         \* history: ids allocated, in allocation order
  returned,       \* history: id -> number of create_order calls that returned it
  cancelledOk,    \* history: id -> number of cancel_order calls that succeeded
  subs,           \* the subscriptions: producer task, channel, receiver
  locks,          \* the three RwLocks: who holds a write or a read guard
  calls,          \* the unary calls that are followed guard by guard: task
                  \* -> the handler's position and locals
  blog            \* the blog server: the users and posts tables of its
                  \* database, and its handlers' calls query by query

vars == <<orders, balances, next_order_id, creating, response, issued,
          returned, cancelledOk, subs, locks, calls, blog>>

Range(s) == {s[i] : i \in DOMAIN s}
Remove(s, i) == [j \in 1 .. (Len(s) - 1) |-> IF j < i THEN s[j] ELSE s[j + 1]]

NoResponse == [op |-> "none"]

\* the tasks that run the unary calls followed guard by guard
Tasks == {"t1", "t2", "t3"}
Idle == [pc |-> "idle"]

\* tokio::sync::RwLock: any number of read guards or one write guard, and
\* a first-in first-out queue of the tasks that wait for a guard (a reader
\* that comes after a waiting writer waits behind it)
FreeLock == [writers |-> {}, readers |-> {}, queue |-> << >>]
\* the task calls write().await or read().await
Queued(l, p) == [l EXCEPT !.queue = Append(@, p)]
CanWrite(l, p) ==
  /\ l.queue # << >> /\ Head(l.queue) = p
  /\ l.writers = {} /\ l.readers = {}
CanRead(l, p) ==
  /\ l.queue # << >> /\ Head(l.queue) = p
  /\ l.writers = {}
WriteLocked(l, p) == [l EXCEPT !.writers = @ \cup {p}, !.queue = Tail(@)]
ReadLocked(l, p) == [l EXCEPT !.readers = @ \cup {p}, !.queue = Tail(@)]
\* the guard is dropped
Unlocked(l, p) ==
  [l EXCEPT !.writers = @ \ {p}, !.readers = @ \ {p}]
\* the workers that run the blog server's handlers
BlogWorkers == {"w1", "w2"}
\* the database after the migrations and before any request: no user, no
\* post; the handlers' calls are followed query by query
NewBlog ==
  [users |-> << >>, posts |-> << >>, post_seq |-> 0,
   calls |-> [w \in BlogWorkers |-> Idle]]

ReturnedIds == {i \in DOMAIN returned : returned[i] > 0}
CancelledIds == {i \in DOMAIN cancelledOk : cancelledOk[i] > 0}
\* history: what create_order and cancel_order calls have returned so far
Snapshot == [created |-> ReturnedIds, cancelled |-> CancelledIds]

\* ExchangeState::new / ExchangeServiceImpl::new
Init ==
  /\ orders = << >>
  /\ balances = << >>
  /\ next_order_id = 1
  /\ creating = << >>
  /\ response = NoResponse
  /\ issued = << >>
  /\ returned = [i \in OrderIds |-> 0]
  /\ cancelledOk = [i \in OrderIds |-> 0]
  /\ subs = << >>
  /\ locks = [orders |-> FreeLock, balances |-> FreeLock,
              next_order_id |-> FreeLock]
  /\ calls = [p \in Tasks |-> Idle]
  /\ blog = NewBlog

(***************************************************************************)
(* The handlers' computations.                                             *)
(***************************************************************************)
\* the validation without its quantity check
ValidationErrorNoQuantity(r) ==
  IF F64LeZero(r.price) THEN "Price must be positive"
  ELSE IF r.symbol = "" THEN "Symbol cannot be empty"
  ELSE "none"

\* create_order's validation: the message of the first check that fails
ValidationError(r) ==
  IF F64LeZero(r.price) THEN "Price must be positive"
  ELSE IF r.quantity <= 0 THEN "Quantity must be positive"
  ELSE IF r.symbol = "" THEN "Symbol cannot be empty"
  ELSE "none"

\* the id read after the increment instead of before it
CurrentIdAfterIncrement(id) == id + 1

\* let current = *id
CurrentId(id) == id

\* the counter incremented twice
NextIdSkipsOne(id) == id + 2

\* the counter left as it is
NextIdStuck(id) == id

\* *id += 1
NextId(id) == id + 1

\* the order built as filled at once
NewOrderFilled(id, r, t) ==
  [id |-> id, user_id |-> r.user_id, symbol |-> r.symbol, type |-> r.type,
   price |-> r.price, quantity |-> r.quantity, filled_quantity |-> r.quantity,
   status |-> Pending, created_at |-> t]

\* the Order create_order builds from its request
NewOrder(id, r, t) ==
  [id |-> id, user_id |-> r.user_id, symbol |-> r.symbol, type |-> r.type,
   price |-> r.price, quantity |-> r.quantity, filled_quantity |-> 0,
   status |-> Pending, created_at |-> t]

\* the insertion left out
InsertSkipped(tbl, k, o) == tbl

\* HashMap::insert
Insert(tbl, k, o) ==
  [i \in DOMAIN tbl \cup {k} |-> IF i = k THEN o ELSE tbl[i]]

\* the status check before the owner check
CancelOutcomeStatusFirst(tbl, r) ==
  IF r.order_id \in DOMAIN tbl
  THEN IF tbl[r.order_id].status # Pending THEN "FailedPrecondition"
       ELSE IF tbl[r.order_id].user_id # r.user_id THEN "PermissionDenied"
       ELSE "Ok"
  ELSE "NotFound"

\* no status check
CancelOutcomeNoStatusCheck(tbl, r) ==
  IF r.order_id \in DOMAIN tbl
  THEN IF tbl[r.order_id].user_id # r.user_id THEN "PermissionDenied"
       ELSE "Ok"
  ELSE "NotFound"

\* no owner check
CancelOutcomeNoOwnerCheck(tbl, r) ==
  IF r.order_id \in DOMAIN tbl
  THEN IF tbl[r.order_id].status # Pending THEN "FailedPrecondition"
       ELSE "Ok"
  ELSE "NotFound"

\* the arm of cancel_order's match that the request takes
CancelOutcome(tbl, r) ==
  IF r.order_id \in DOMAIN tbl
  THEN IF tbl[r.order_id].user_id # r.user_id THEN "PermissionDenied"
       ELSE IF tbl[r.order_id].status # Pending THEN "FailedPrecondition"
       ELSE "Ok"
  ELSE "NotFound"

\* the entry removed instead of marked
CancelEntryRemove(tbl, k) == [i \in DOMAIN tbl \ {k} |-> tbl[i]]

\* the cancellation also zeroes the quantity that is left
CancelEntryZeroesQuantity(tbl, k) ==
  [tbl EXCEPT ![k].status = Cancelled, ![k].quantity = 0]

\* order.status = OrderStatus::Cancelled as i32
CancelEntry(tbl, k) == [tbl EXCEPT ![k].status = Cancelled]

\* the filter without its symbol condition
ActiveOrdersNoSymbolFilter(tbl, r) ==
  {tbl[k] : k \in {i \in DOMAIN tbl :
                     tbl[i].user_id = r.user_id /\ tbl[i].status = Pending}}

\* the filter without its user condition
ActiveOrdersOfAllUsers(tbl, r) ==
  {tbl[k] : k \in {i \in DOMAIN tbl :
                     /\ tbl[i].status = Pending
                     /\ (r.symbol = "" \/ tbl[i].symbol = r.symbol)}}

\* the filter of get_active_orders; the Vec's order is the HashMap's
ActiveOrders(tbl, r) ==
  {tbl[k] : k \in {i \in DOMAIN tbl :
                     /\ tbl[i].user_id = r.user_id
                     /\ tbl[i].status = Pending
                     /\ (r.symbol = "" \/ tbl[i].symbol = r.symbol)}}

\* a missing pair read as an error value instead of 0.0
BalanceOfMissingIsNaN(b, r) ==
  IF r.user_id \in DOMAIN b /\ r.currency \in DOMAIN b[r.user_id]
  THEN b[r.user_id][r.currency]
  ELSE NaN

\* balances.get(user_id).and_then(|b| b.get(currency)).copied().unwrap_or(0.0)
BalanceOf(b, r) ==
  IF r.user_id \in DOMAIN b /\ r.currency \in DOMAIN b[r.user_id]
  THEN b[r.user_id][r.currency]
  ELSE F64(0)

(***************************************************************************)
(* create_order                                                            *)
(***************************************************************************)
\* lines 49-60: a request that fails the validation returns at once
CreateOrderInvalid(r) ==
  /\ ValidationError(r) # "none"
  /\ response' = [op |-> "create_order", req |-> r, code |-> "InvalidArgument",
                  message |-> ValidationError(r)]
  /\ UNCHANGED <<orders, balances, next_order_id, creating, issued, returned,
                 cancelledOk, subs, locks, calls, blog>>

\* lines 49-81: a valid request; under the write guard of next_order_id the
\* call takes the counter's value and increments it, then it builds the
\* order and waits for orders.write()
CreateOrderAllocate(r, t) ==
  /\ ValidationError(r) = "none"
  /\ Len(creating) < NumCalls
  /\ next_order_id <= MaxOrders
  /\ creating' = Append(creating,
                        [req |-> r,
                         order |-> NewOrder(CurrentId(next_order_id), r, t),
                         seen |-> Snapshot])
  /\ next_order_id' = NextId(next_order_id)
  /\ issued' = Append(issued, CurrentId(next_order_id))
  /\ response' = NoResponse
  /\ UNCHANGED <<orders, balances, returned, cancelledOk, subs, locks,
                 calls, blog>>

\* lines 83-99: under the write guard of orders the call inserts its order,
\* then it returns the order
CreateOrderInsert(i) ==
  /\ i \in DOMAIN creating
  /\ orders' = Insert(orders, creating[i].order.id, creating[i].order)
  /\ returned' = [returned EXCEPT ![creating[i].order.id] = @ + 1]
  /\ response' = [op |-> "create_order", req |-> creating[i].req,
                  code |-> "Ok", message |-> "",
                  order |-> creating[i].order, seen |-> creating[i].seen]
  /\ creating' = Remove(creating, i)
  /\ UNCHANGED <<balances, next_order_id, issued, cancelledOk, subs, locks,
                 calls, blog>>

(***************************************************************************)
(* cancel_order                                                            *)
(***************************************************************************)
\* lines 209-236: under the write guard of orders, the match, the status
\* change and the return
CancelOrder(r) ==
  /\ LET code == CancelOutcome(orders, r) IN
       /\ orders' = IF code = "Ok" THEN CancelEntry(orders, r.order_id)
                    ELSE orders
       /\ cancelledOk' = IF code = "Ok"
                         THEN [cancelledOk EXCEPT ![r.order_id] = @ + 1]
                         ELSE cancelledOk
       /\ response' = [op |-> "cancel_order", req |-> r, code |-> code,
                       success |-> (code = "Ok")]
  /\ UNCHANGED <<balances, next_order_id, creating, issued, returned, subs,
                 locks, calls, blog>>

(***************************************************************************)
(* get_active_orders                                                       *)
(***************************************************************************)
\* lines 127-143: under a read guard of orders, filter, collect and return
GetActiveOrders(r) ==
  /\ response' = [op |-> "get_active_orders", req |-> r, code |-> "Ok",
                  orders |-> ActiveOrders(orders, r)]
  /\ UNCHANGED <<orders, balances, next_order_id, creating, issued, returned,
                 cancelledOk, subs, locks, calls, blog>>

(***************************************************************************)
(* get_balance                                                             *)
(***************************************************************************)
\* lines 106-121: under a read guard of balances, look the pair up and
\* return
GetBalance(r) ==
  /\ response' = [op |-> "get_balance", req |-> r, code |-> "Ok",
                  user_id |-> r.user_id, currency |-> r.currency,
                  balance |-> BalanceOf(balances, r)]
  /\ UNCHANGED <<orders, balances, next_order_id, creating, issued, returned,
                 cancelledOk, subs, locks, calls, blog>>

(***************************************************************************)
(* stream_quotes: the handler, the producer task it spawns, and the        *)
(* consumer of the ReceiverStream (the transport).                         *)
(***************************************************************************)
\* tokio::sync::mpsc::channel(128)
ChannelCapacity == 128

\* symbol.len(), in bytes
SymbolLen(sym) ==
  CASE sym = "BTC" -> 3 [] sym = "ETH" -> 3 [] sym = "USD" -> 3
    [] sym = "DOGE" -> 4 [] OTHER -> 0

\* the match without its catch-all arm: a symbol outside the table has no
\* base price
BasePriceNoFallback(sym) ==
  CASE sym = "BTC" -> 50000 [] sym = "ETH" -> 3000 [] sym = "USD" -> 1
    [] OTHER -> 0

\* the base price match
BasePrice(sym) ==
  CASE sym = "BTC" -> 50000 [] sym = "ETH" -> 3000 [] sym = "USD" -> 1
    [] OTHER -> 100

RECURSIVE BitXor(_, _)
\* a ^ b on unsigned integers
BitXor(a, b) ==
  IF a = 0 THEN b
  ELSE IF b = 0 THEN a
  ELSE (((a % 2) + (b % 2)) % 2) + 2 * BitXor(a \div 2, b \div 2)

\* the seed taken from the symbol's own value, not from its length
SeedFromSymbol(sym, t) == BitXor(t, BasePrice(sym))

\* (timestamp as u64) ^ (symbol.len() as u64)
Seed(sym, t) == BitXor(t, SymbolLen(sym))

\* StdRng::seed_from_u64(seed): the generator's two draws are functions of
\* the seed alone; gen::<f64>() in [0, 1) is modelled in hundredths
VolumeRange == 1000000
GenF64(seed) == ((seed * 37) + 11) % 100
\* one generator shared by the producers in the place of one per quote: a
\* draw depends on the draws made before it
GenVolumeShared(seed) ==
  ((seed * 7919) + 104729 + Len(subs[1].chan)) % VolumeRange

GenVolume(seed) == ((seed * 7919) + 104729) % VolumeRange

\* prices are fixed-point numbers in units of 1/10000, rounded down
\* variation = (u - 0.5) * 0.02; bid = base_price * (1.0 + variation)
BidOf(sym, seed) == BasePrice(sym) * (4950 + GenF64(seed)) * 2
\* ask = bid * 1.001
AskOf(bid) == bid + (bid \div 1000)
\* the division applied to ask alone
LastOfAskHalved(bid, ask) == bid + (ask \div 2)

\* last = (bid + ask) / 2.0
LastOf(bid, ask) == (bid + ask) \div 2

\* the Quote built in one iteration of the for loop
NewQuote(sym, t) ==
  LET seed == Seed(sym, t)
      bid == BidOf(sym, seed)
      ask == AskOf(bid)
  IN [symbol |-> sym, bid |-> bid, ask |-> ask, last |-> LastOf(bid, ask),
      volume |-> GenVolume(seed), timestamp |-> t]

\* tokio::time::Duration::from_secs(1), the unit of time of the model
Period == 1

\* interval_at(now + period) in the place of interval(period): the first
\* tick is due one period after the task starts
NewSubscriptionFirstTickLate(r) ==
  [symbols |-> r.symbols, chan |-> << >>, rx |-> "open", pc |-> "tick",
   i |-> 0, ticks |-> 0, delivered |-> 0, received |-> << >>,
   full_at_drop |-> FALSE, deadline |-> Period, elapsed |-> 0]

\* the subscription a stream_quotes call sets up: the channel, the receiver
\* it returns, and the spawned task at its first interval.tick().await;
\* deadline is when the Interval's next tick is due and elapsed the time the
\* timer has made the task wait, both counted from the task's start: an
\* Interval made by interval(period) has its first tick due at once
\* (received and full_at_drop are history: the quotes the consumer got, and
\* whether the producer was waiting for room in a full channel when the
\* receiver went away)
NewSubscription(r) ==
  [symbols |-> r.symbols, chan |-> << >>, rx |-> "open", pc |-> "tick",
   i |-> 0, ticks |-> 0, delivered |-> 0, received |-> << >>,
   full_at_drop |-> FALSE, deadline |-> 0, elapsed |-> 0]

\* the handler without its check of the symbols list
StreamQuotesUnchecked(r) ==
  /\ Len(subs) < MaxSubs
  /\ subs' = Append(subs, NewSubscription(r))
  /\ response' = [op |-> "stream_quotes", req |-> r, code |-> "Ok",
                  sub |-> Len(subs) + 1]
  /\ UNCHANGED <<orders, balances, next_order_id, creating, issued, returned,
                 cancelledOk, locks, calls, blog>>

\* lines 151-155: an empty symbols list returns at once
StreamQuotesInvalid(r) ==
  /\ r.symbols = << >>
  /\ response' = [op |-> "stream_quotes", req |-> r,
                  code |-> "InvalidArgument"]
  /\ UNCHANGED <<orders, balances, next_order_id, creating, issued, returned,
                 cancelledOk, subs, locks, calls, blog>>

\* lines 151-202: create the channel, spawn the producer, return the stream
\* (n caps the subscriptions of one behaviour)
StreamQuotesWithin(r, n) ==
  /\ r.symbols # << >>
  /\ Len(subs) < n
  /\ subs' = Append(subs, NewSubscription(r))
  /\ response' = [op |-> "stream_quotes", req |-> r, code |-> "Ok",
                  sub |-> Len(subs) + 1]
  /\ UNCHANGED <<orders, balances, next_order_id, creating, issued, returned,
                 cancelledOk, locks, calls, blog>>

StreamQuotes(r) == StreamQuotesWithin(r, MaxSubs)

\* line 165: interval.tick().await completes: the task has waited until the
\* tick's deadline (not at all when the deadline is not ahead), and the next
\* tick is due one period after this one; the for loop starts at the first
\* symbol.
\* The cap n is on the ticks whose quotes go to an open receiver: the tick
\* that follows the receiver's drop is always taken.
ProducerTickWithin(k, n) ==
  /\ k \in DOMAIN subs
  /\ subs[k].pc = "tick"
  /\ subs[k].ticks < n \/ subs[k].rx = "dropped"
  /\ subs' = [subs EXCEPT
       ![k].pc = "send", ![k].i = 1, ![k].ticks = @ + 1,
       ![k].elapsed = IF @ < subs[k].deadline THEN subs[k].deadline ELSE @,
       ![k].deadline = @ + Period]
  /\ response' = NoResponse
  /\ UNCHANGED <<orders, balances, next_order_id, creating, issued, returned,
                 cancelledOk, locks, calls, blog>>

ProducerTick(k) == ProducerTickWithin(k, MaxTicks)

\* try_send in the place of send: a quote that finds the channel full is
\* dropped and the for loop goes on
ProducerSendDropsWhenFull(k, t) ==
  /\ k \in DOMAIN subs
  /\ subs[k].pc = "send"
  /\ \/ /\ subs[k].rx = "dropped"
        /\ subs' = [subs EXCEPT ![k].pc = "exited", ![k].i = 0]
     \/ /\ subs[k].rx = "open"
        /\ subs' = [subs EXCEPT
             ![k].chan = IF Len(@) < ChannelCapacity
                         THEN Append(@, NewQuote(subs[k].symbols[subs[k].i], t))
                         ELSE @,
             ![k].i = IF subs[k].i = Len(subs[k].symbols) THEN 0 ELSE @ + 1,
             ![k].pc = IF subs[k].i = Len(subs[k].symbols)
                       THEN "tick" ELSE "send"]
  /\ response' = NoResponse
  /\ UNCHANGED <<orders, balances, next_order_id, creating, issued, returned,
                 cancelledOk, locks, calls, blog>>

\* the result of tx.send(..).await not looked at: after a failed send the
\* for loop goes on
ProducerSendIgnoresError(k, t) ==
  /\ k \in DOMAIN subs
  /\ subs[k].pc = "send"
  /\ \/ /\ subs[k].rx = "dropped"
        /\ subs' = [subs EXCEPT
             ![k].i = IF subs[k].i = Len(subs[k].symbols) THEN 0 ELSE @ + 1,
             ![k].pc = IF subs[k].i = Len(subs[k].symbols)
                       THEN "tick" ELSE "send"]
     \/ /\ subs[k].rx = "open"
        /\ Len(subs[k].chan) < ChannelCapacity
        /\ subs' = [subs EXCEPT
             ![k].chan = Append(@, NewQuote(subs[k].symbols[subs[k].i], t)),
             ![k].i = IF subs[k].i = Len(subs[k].symbols) THEN 0 ELSE @ + 1,
             ![k].pc = IF subs[k].i = Len(subs[k].symbols)
                       THEN "tick" ELSE "send"]
  /\ response' = NoResponse
  /\ UNCHANGED <<orders, balances, next_order_id, creating, issued, returned,
                 cancelledOk, locks, calls, blog>>

\* an unbounded channel in the place of channel(128): a send never waits
ProducerSendUnbounded(k, t) ==
  /\ k \in DOMAIN subs
  /\ subs[k].pc = "send"
  /\ \/ /\ subs[k].rx = "dropped"
        /\ subs' = [subs EXCEPT ![k].pc = "exited", ![k].i = 0]
     \/ /\ subs[k].rx = "open"
        /\ subs' = [subs EXCEPT
             ![k].chan = Append(@, NewQuote(subs[k].symbols[subs[k].i], t)),
             ![k].i = IF subs[k].i = Len(subs[k].symbols) THEN 0 ELSE @ + 1,
             ![k].pc = IF subs[k].i = Len(subs[k].symbols)
                       THEN "tick" ELSE "send"]
  /\ response' = NoResponse
  /\ UNCHANGED <<orders, balances, next_order_id, creating, issued, returned,
                 cancelledOk, locks, calls, blog>>

\* one channel for all the subscriptions in the place of one each: every
\* producer sends into the channel of the first subscription
ProducerSendSharedChannel(k, t) ==
  /\ k \in DOMAIN subs
  /\ subs[k].pc = "send"
  /\ \/ /\ subs[1].rx = "dropped"
        /\ subs' = [subs EXCEPT ![k].pc = "exited", ![k].i = 0]
     \/ /\ subs[1].rx = "open"
        /\ Len(subs[1].chan) < ChannelCapacity
        /\ subs' = [subs EXCEPT
             ![1].chan = Append(@, NewQuote(subs[k].symbols[subs[k].i], t)),
             ![k].i = IF subs[k].i = Len(subs[k].symbols) THEN 0 ELSE @ + 1,
             ![k].pc = IF subs[k].i = Len(subs[k].symbols)
                       THEN "tick" ELSE "send"]
  /\ response' = NoResponse
  /\ UNCHANGED <<orders, balances, next_order_id, creating, issued, returned,
                 cancelledOk, locks, calls, blog>>

\* lines 167-198: one iteration of the for loop: build the quote and send
\* it; tx.send(..).await completes when the channel has room, and fails when
\* the receiver is gone, which ends the task
ProducerSend(k, t) ==
  /\ k \in DOMAIN subs
  /\ subs[k].pc = "send"
  /\ \/ /\ subs[k].rx = "dropped"
        /\ subs' = [subs EXCEPT ![k].pc = "exited", ![k].i = 0]
     \/ /\ subs[k].rx = "open"
        /\ Len(subs[k].chan) < ChannelCapacity
        /\ subs' = [subs EXCEPT
             ![k].chan = Append(@, NewQuote(subs[k].symbols[subs[k].i], t)),
             ![k].i = IF subs[k].i = Len(subs[k].symbols) THEN 0 ELSE @ + 1,
             ![k].pc = IF subs[k].i = Len(subs[k].symbols)
                       THEN "tick" ELSE "send"]
  /\ response' = NoResponse
  /\ UNCHANGED <<orders, balances, next_order_id, creating, issued, returned,
                 cancelledOk, locks, calls, blog>>

\* the transport polls the ReceiverStream and gets the oldest quote
ConsumerRecv(k) ==
  /\ k \in DOMAIN subs
  /\ subs[k].rx = "open"
  /\ subs[k].chan # << >>
  /\ subs' = [subs EXCEPT ![k].chan = Tail(@), ![k].delivered = @ + 1,
                          ![k].received = Append(@, Head(subs[k].chan))]
  /\ response' = NoResponse
  /\ UNCHANGED <<orders, balances, next_order_id, creating, issued, returned,
                 cancelledOk, locks, calls, blog>>

\* the client disconnects: the transport drops the ReceiverStream, which
\* closes the channel and discards what it holds
ConsumerDrop(k) ==
  /\ k \in DOMAIN subs
  /\ subs[k].rx = "open"
  /\ subs' = [subs EXCEPT
       ![k].rx = "dropped", ![k].chan = << >>,
       ![k].full_at_drop = (subs[k].pc = "send"
                              /\ Len(subs[k].chan) = ChannelCapacity)]
  /\ response' = NoResponse
  /\ UNCHANGED <<orders, balances, next_order_id, creating, issued, returned,
                 cancelledOk, locks, calls, blog>>

(***************************************************************************)
(* The unary handlers guard by guard: a task's call is followed from its   *)
(* start through each lock().await, each guarded section and each drop of  *)
(* a guard.                                                                *)
(***************************************************************************)
\* the requests of the calls followed guard by guard
TaskCreateOrderRequests == ServiceCreateOrderRequests
TaskCancelOrderRequests ==
  {r \in CancelOrderRequests : r.user_id = "u1" /\ r.order_id = 1}
TaskGetActiveOrdersRequests ==
  {r \in ServiceGetActiveOrdersRequests : r.user_id = "u1"}
TaskGetBalanceRequests == {r \in GetBalanceRequests : r.user_id = "u1"}

\* the create_order calls that will take an id and have not yet
TakingId == {p \in Tasks : calls[p].pc \in {"id_wait", "id_held"}}
\* the ids that create_order calls hold and have not inserted yet
Holding == {"id_taken", "orders_wait", "orders_held"}
HeldIds ==
  {calls[p].order_id : p \in {q \in Tasks : calls[q].pc \in Holding}}

\* lines 49-60: the call of a request that fails the validation
CreateOrderReject(p, r) ==
  /\ calls[p] = Idle
  /\ ValidationError(r) # "none"
  /\ response' = [op |-> "create_order", req |-> r, code |-> "InvalidArgument",
                  message |-> ValidationError(r)]
  /\ UNCHANGED <<orders, balances, next_order_id, creating, issued, returned,
                 cancelledOk, subs, locks, calls, blog>>

\* lines 49-64: a valid request reaches next_order_id.write().await
CreateOrderBegin(p, r) ==
  /\ calls[p] = Idle
  /\ ValidationError(r) = "none"
  /\ next_order_id + Cardinality(TakingId) <= MaxOrders
  /\ calls' = [calls EXCEPT ![p] = [pc |-> "id_wait", req |-> r]]
  /\ locks' = [locks EXCEPT !.next_order_id = Queued(@, p)]
  /\ response' = NoResponse
  /\ UNCHANGED <<orders, balances, next_order_id, creating, issued, returned,
                 cancelledOk, subs, blog>>

\* line 64: the write guard of next_order_id is granted
CreateOrderLockId(p) ==
  /\ calls[p].pc = "id_wait"
  /\ CanWrite(locks.next_order_id, p)
  /\ locks' = [locks EXCEPT !.next_order_id = WriteLocked(@, p)]
  /\ calls' = [calls EXCEPT ![p].pc = "id_held"]
  /\ response' = NoResponse
  /\ UNCHANGED <<orders, balances, next_order_id, creating, issued, returned,
                 cancelledOk, subs, blog>>

\* the block of lines 63-68 without its braces: the guard of next_order_id
\* lives on after the id is taken
CreateOrderTakeIdKeepsGuard(p) ==
  /\ calls[p].pc = "id_held"
  /\ next_order_id' = NextId(next_order_id)
  /\ issued' = Append(issued, CurrentId(next_order_id))
  /\ calls' = [calls EXCEPT ![p] =
       [pc |-> "id_taken", req |-> calls[p].req,
        order_id |-> CurrentId(next_order_id)]]
  /\ response' = NoResponse
  /\ UNCHANGED <<orders, balances, creating, returned, cancelledOk, subs,
                 locks, blog>>

\* lines 65-68: take the counter's value, increment it, drop the guard
CreateOrderTakeId(p) ==
  /\ calls[p].pc = "id_held"
  /\ next_order_id' = NextId(next_order_id)
  /\ issued' = Append(issued, CurrentId(next_order_id))
  /\ locks' = [locks EXCEPT !.next_order_id = Unlocked(@, p)]
  /\ calls' = [calls EXCEPT ![p] =
       [pc |-> "id_taken", req |-> calls[p].req,
        order_id |-> CurrentId(next_order_id)]]
  /\ response' = NoResponse
  /\ UNCHANGED <<orders, balances, creating, returned, cancelledOk, subs, blog>>

\* lines 71-85: build the order and reach orders.write().await
CreateOrderBuild(p, t) ==
  /\ calls[p].pc = "id_taken"
  /\ calls' = [calls EXCEPT ![p] =
       [pc |-> "orders_wait", req |-> calls[p].req,
        order_id |-> calls[p].order_id,
        order |-> NewOrder(calls[p].order_id, calls[p].req, t)]]
  /\ locks' = [locks EXCEPT !.orders = Queued(@, p)]
  /\ response' = NoResponse
  /\ UNCHANGED <<orders, balances, next_order_id, creating, issued, returned,
                 cancelledOk, subs, blog>>

\* line 85: the write guard of orders is granted
CreateOrderLockOrders(p) ==
  /\ calls[p].pc = "orders_wait"
  /\ CanWrite(locks.orders, p)
  /\ locks' = [locks EXCEPT !.orders = WriteLocked(@, p)]
  /\ calls' = [calls EXCEPT ![p].pc = "orders_held"]
  /\ response' = NoResponse
  /\ UNCHANGED <<orders, balances, next_order_id, creating, issued, returned,
                 cancelledOk, subs, blog>>

\* lines 86-99: insert the order, drop the guard, return the order
CreateOrderStore(p) ==
  /\ calls[p].pc = "orders_held"
  /\ orders' = Insert(orders, calls[p].order_id, calls[p].order)
  /\ returned' = [returned EXCEPT ![calls[p].order_id] = @ + 1]
  /\ locks' = [locks EXCEPT !.orders = Unlocked(@, p)]
  /\ response' = [op |-> "create_order", req |-> calls[p].req,
                  code |-> "Ok", message |-> "", order |-> calls[p].order]
  /\ calls' = [calls EXCEPT ![p] = Idle]
  /\ UNCHANGED <<balances, next_order_id, creating, issued, cancelledOk, subs,
                 blog>>

\* lines 209-211: the call reaches orders.write().await
CancelOrderBegin(p, r) ==
  /\ calls[p] = Idle
  /\ calls' = [calls EXCEPT ![p] = [pc |-> "cancel_wait", req |-> r]]
  /\ locks' = [locks EXCEPT !.orders = Queued(@, p)]
  /\ response' = NoResponse
  /\ UNCHANGED <<orders, balances, next_order_id, creating, issued, returned,
                 cancelledOk, subs, blog>>

\* a read guard taken where the write guard is
CancelOrderLockShared(p) ==
  /\ calls[p].pc = "cancel_wait"
  /\ CanRead(locks.orders, p)
  /\ locks' = [locks EXCEPT !.orders = ReadLocked(@, p)]
  /\ calls' = [calls EXCEPT ![p].pc = "cancel_held"]
  /\ response' = NoResponse
  /\ UNCHANGED <<orders, balances, next_order_id, creating, issued, returned,
                 cancelledOk, subs, blog>>

\* line 211: the write guard of orders is granted
CancelOrderLock(p) ==
  /\ calls[p].pc = "cancel_wait"
  /\ CanWrite(locks.orders, p)
  /\ locks' = [locks EXCEPT !.orders = WriteLocked(@, p)]
  /\ calls' = [calls EXCEPT ![p].pc = "cancel_held"]
  /\ response' = NoResponse
  /\ UNCHANGED <<orders, balances, next_order_id, creating, issued, returned,
                 cancelledOk, subs, blog>>

\* lines 213-225 and 234: the match; an error returns at once and drops the
\* guard, the other arm assigns the status
CancelOrderMatch(p) ==
  /\ calls[p].pc = "cancel_held"
  /\ LET code == CancelOutcome(orders, calls[p].req) IN
       IF code = "Ok"
       THEN /\ orders' = CancelEntry(orders, calls[p].req.order_id)
            /\ calls' = [calls EXCEPT ![p].pc = "cancel_done"]
            /\ response' = NoResponse
            /\ UNCHANGED locks
       ELSE /\ locks' = [locks EXCEPT !.orders = Unlocked(@, p)]
            /\ calls' = [calls EXCEPT ![p] = Idle]
            /\ response' = [op |-> "cancel_order", req |-> calls[p].req,
                            code |-> code, success |-> FALSE]
            /\ UNCHANGED orders
  /\ UNCHANGED <<balances, next_order_id, creating, issued, returned,
                 cancelledOk, subs, blog>>

\* lines 227-233: build the response, return it and drop the guard
CancelOrderReturn(p) ==
  /\ calls[p].pc = "cancel_done"
  /\ locks' = [locks EXCEPT !.orders = Unlocked(@, p)]
  /\ cancelledOk' = [cancelledOk EXCEPT ![calls[p].req.order_id] = @ + 1]
  /\ response' = [op |-> "cancel_order", req |-> calls[p].req,
                  code |-> "Ok", success |-> TRUE]
  /\ calls' = [calls EXCEPT ![p] = Idle]
  /\ UNCHANGED <<orders, balances, next_order_id, creating, issued, returned,
                 subs, blog>>

\* lines 127-129: the call reaches orders.read().await
GetActiveOrdersBegin(p, r) ==
  /\ calls[p] = Idle
  /\ calls' = [calls EXCEPT ![p] = [pc |-> "active_wait", req |-> r]]
  /\ locks' = [locks EXCEPT !.orders = Queued(@, p)]
  /\ response' = NoResponse
  /\ UNCHANGED <<orders, balances, next_order_id, creating, issued, returned,
                 cancelledOk, subs, blog>>

\* line 129: a read guard of orders is granted
GetActiveOrdersLock(p) ==
  /\ calls[p].pc = "active_wait"
  /\ CanRead(locks.orders, p)
  /\ locks' = [locks EXCEPT !.orders = ReadLocked(@, p)]
  /\ calls' = [calls EXCEPT ![p].pc = "active_held"]
  /\ response' = NoResponse
  /\ UNCHANGED <<orders, balances, next_order_id, creating, issued, returned,
                 cancelledOk, subs, blog>>

\* lines 130-143: filter, collect, return and drop the guard
GetActiveOrdersCollect(p) ==
  /\ calls[p].pc = "active_held"
  /\ locks' = [locks EXCEPT !.orders = Unlocked(@, p)]
  /\ response' = [op |-> "get_active_orders", req |-> calls[p].req,
                  code |-> "Ok", orders |-> ActiveOrders(orders, calls[p].req)]
  /\ calls' = [calls EXCEPT ![p] = Idle]
  /\ UNCHANGED <<orders, balances, next_order_id, creating, issued, returned,
                 cancelledOk, subs, blog>>

\* lines 106-108: the call reaches balances.read().await
GetBalanceBegin(p, r) ==
  /\ calls[p] = Idle
  /\ calls' = [calls EXCEPT ![p] = [pc |-> "balance_wait", req |-> r]]
  /\ locks' = [locks EXCEPT !.balances = Queued(@, p)]
  /\ response' = NoResponse
  /\ UNCHANGED <<orders, balances, next_order_id, creating, issued, returned,
                 cancelledOk, subs, blog>>

\* line 108: a read guard of balances is granted
GetBalanceLock(p) ==
  /\ calls[p].pc = "balance_wait"
  /\ CanRead(locks.balances, p)
  /\ locks' = [locks EXCEPT !.balances = ReadLocked(@, p)]
  /\ calls' = [calls EXCEPT ![p].pc = "balance_held"]
  /\ response' = NoResponse
  /\ UNCHANGED <<orders, balances, next_order_id, creating, issued, returned,
                 cancelledOk, subs, blog>>

\* lines 109-121: look the pair up, return and drop the guard
GetBalanceLookup(p) ==
  /\ calls[p].pc = "balance_held"
  /\ locks' = [locks EXCEPT !.balances = Unlocked(@, p)]
  /\ response' = [op |-> "get_balance", req |-> calls[p].req, code |-> "Ok",
                  user_id |-> calls[p].req.user_id,
                  currency |-> calls[p].req.currency,
                  balance |-> BalanceOf(balances, calls[p].req)]
  /\ calls' = [calls EXCEPT ![p] = Idle]
  /\ UNCHANGED <<orders, balances, next_order_id, creating, issued, returned,
                 cancelledOk, subs, blog>>

(***************************************************************************)
(* The blog server (blog-server/src): AuthService::register and            *)
(* BlogService's post operations over the users and posts tables of the    *)
(* SQLite database.  A handler runs one query per step: every query is an  *)
(* await on the connection pool, and other requests run between two        *)
(* queries of one call.  The table definitions (the migrations) are not in *)
(* the source tree: the users table is followed both with and without      *)
(* uniqueness constraints, and a post's id is taken as never given again.  *)
(***************************************************************************)
Usernames == {"alice", "bob"}
Emails == {"a@x", "b@x"}
Titles == {"T1", "T2"}
Contents == {"C1", "C2"}
\* Option::None
None == "None"

RegisterRequests == [username : Usernames, email : Emails]
CreatePostRequests == [title : {"T1"}, content : {"C1"}]
UpdatePostRequests ==
  [title : {None, "T2"}, content : {None, "C2"}]
\* the post ids a request can name: the ids the table gives, and one more
PostIds == 1 .. (MaxPosts + 1)
\* the user ids a token can carry: a token is made for a row of users
UserIds == 1 .. Len(blog.users)

\* AppError::error_response, and the handlers' statuses of success
HttpStatus(op, code) ==
  CASE code \in {"UserNotFound", "PostNotFound"} -> 404
    [] code = "InvalidCredentials" -> 401
    [] code = "Forbidden" -> 403
    [] code \in {"UsernameExists", "EmailExists", "Validation"} -> 400
    [] code \in {"Config", "Database", "Jwt", "PasswordHash", "Internal"} -> 500
    [] code = "Ok" /\ op \in {"register", "create_post"} -> 201
    [] code = "Ok" /\ op = "delete_post" -> 204
    [] OTHER -> 200

\* what a handler returns to its client
BlogResponse(w, call, code) ==
  [op |-> call.op, worker |-> w, call |-> call, code |-> code,
   status |-> HttpStatus(call.op, code)]

\* find_by_username(..).is_some(), find_by_email(..).is_some()
UsernameTaken(name) == \E i \in DOMAIN blog.users : blog.users[i].username = name
EmailTaken(email) == \E i \in DOMAIN blog.users : blog.users[i].email = email

\* the register calls that are past the username check
Registering ==
  {w \in BlogWorkers : blog.calls[w].pc \in {"find_by_email", "create"}}

\* register, lines 35-42: find_by_username; a username that is found
\* returns UsernameExists
RegisterFindByUsername(w, req) ==
  /\ blog.calls[w] = Idle
  /\ LET call == [op |-> "register", req |-> req] IN
       IF UsernameTaken(req.username)
       THEN /\ response' = BlogResponse(w, call, "UsernameExists")
            /\ UNCHANGED blog
       ELSE /\ Len(blog.users) + Cardinality(Registering) < MaxUsers
            /\ blog' = [blog EXCEPT !.calls[w] =
                 [pc |-> "find_by_email", op |-> "register", req |-> req]]
            /\ response' = NoResponse
  /\ UNCHANGED <<orders, balances, next_order_id, creating, issued, returned,
                 cancelledOk, subs, locks, calls>>

\* register, lines 44-47: find_by_email; an email that is found returns
\* EmailExists
RegisterFindByEmail(w) ==
  /\ blog.calls[w].pc = "find_by_email"
  /\ IF EmailTaken(blog.calls[w].req.email)
     THEN /\ response' = BlogResponse(w, blog.calls[w], "EmailExists")
          /\ blog' = [blog EXCEPT !.calls[w] = Idle]
     ELSE /\ blog' = [blog EXCEPT !.calls[w].pc = "create"]
          /\ response' = NoResponse
  /\ UNCHANGED <<orders, balances, next_order_id, creating, issued, returned,
                 cancelledOk, subs, locks, calls>>

\* the row UserRepository::create inserts
NewUser(id, req, t) ==
  [id |-> id, username |-> req.username, email |-> req.email, created_at |-> t]

\* register, lines 49-66, over a users table whose username and email
\* columns are UNIQUE: the INSERT of a taken username or email fails, and
\* the sqlx error returns as AppError::Database; else the row is inserted
\* and the call returns the user
RegisterCreate(w, t) ==
  /\ blog.calls[w].pc = "create"
  /\ LET req == blog.calls[w].req IN
       IF UsernameTaken(req.username) \/ EmailTaken(req.email)
       THEN /\ response' = BlogResponse(w, blog.calls[w], "Database")
            /\ blog' = [blog EXCEPT !.calls[w] = Idle]
       ELSE /\ response' = BlogResponse(w, blog.calls[w], "Ok")
            /\ blog' = [blog EXCEPT
                 !.users = Append(@, NewUser(Len(@) + 1, req, t)),
                 !.calls[w] = Idle]
  /\ UNCHANGED <<orders, balances, next_order_id, creating, issued, returned,
                 cancelledOk, subs, locks, calls>>

\* register, lines 49-66, over a users table without such constraints: the
\* INSERT adds the row whatever the table holds
RegisterCreateUnconstrained(w, t) ==
  /\ blog.calls[w].pc = "create"
  /\ response' = BlogResponse(w, blog.calls[w], "Ok")
  /\ blog' = [blog EXCEPT
       !.users = Append(@, NewUser(Len(@) + 1, blog.calls[w].req, t)),
       !.calls[w] = Idle]
  /\ UNCHANGED <<orders, balances, next_order_id, creating, issued, returned,
                 cancelledOk, subs, locks, calls>>

\* the row PostRepository::create inserts
NewPost(id, req, author_id, t) ==
  [id |-> id, title |-> req.title, content |-> req.content,
   author_id |-> author_id, created_at |-> t, updated_at |-> t]

\* create_post, lines 30-33: the INSERT
CreatePostCreate(w, author_id, req, t) ==
  /\ blog.calls[w] = Idle
  /\ author_id \in UserIds
  /\ blog.post_seq < MaxPosts
  /\ blog' = [blog EXCEPT
       !.posts = Insert(@, blog.post_seq + 1,
                        NewPost(blog.post_seq + 1, req, author_id, t)),
       !.post_seq = @ + 1,
       !.calls[w] = [pc |-> "create_author", op |-> "create_post",
                     id |-> blog.post_seq + 1, user_id |-> author_id]]
  /\ response' = NoResponse
  /\ UNCHANGED <<orders, balances, next_order_id, creating, issued, returned,
                 cancelledOk, subs, locks, calls>>

\* create_post, lines 34-38: find_author_username, and the return
CreatePostAuthor(w) ==
  /\ blog.calls[w].pc = "create_author"
  /\ response' = BlogResponse(w, blog.calls[w], "Ok")
  /\ blog' = [blog EXCEPT !.calls[w] = Idle]
  /\ UNCHANGED <<orders, balances, next_order_id, creating, issued, returned,
                 cancelledOk, subs, locks, calls>>

\* no check of the author
IsAuthorUnchecked(post, user_id) == TRUE

\* post.author_id != user_id, lines 88 and 116
IsAuthor(post, user_id) == post.author_id = user_id

\* the result of the first query of update_post and delete_post and of the
\* check that follows it (lines 82-90, 110-118)
FindOutcome(id, user_id) ==
  IF id \notin DOMAIN blog.posts THEN "PostNotFound"
  ELSE IF ~IsAuthor(blog.posts[id], user_id) THEN "Forbidden"
  ELSE "Ok"

\* update_post, lines 82-90: find_by_id and the check of the author
UpdatePostFindById(w, id, user_id, req) ==
  /\ blog.calls[w] = Idle
  /\ user_id \in UserIds
  /\ LET call == [op |-> "update_post", id |-> id, user_id |-> user_id,
                  req |-> req]
         code == FindOutcome(id, user_id)
     IN IF code = "Ok"
        THEN /\ blog' = [blog EXCEPT !.calls[w] =
                  [pc |-> "update_current", op |-> "update_post", id |-> id,
                   user_id |-> user_id, req |-> req]]
             /\ response' = NoResponse
        ELSE /\ response' = BlogResponse(w, call, code)
             /\ UNCHANGED blog
  /\ UNCHANGED <<orders, balances, next_order_id, creating, issued, returned,
                 cancelledOk, subs, locks, calls>>

\* PostRepository::update, line 101: find_by_id once more, for the fields
\* the request leaves out
UpdatePostCurrent(w) ==
  /\ blog.calls[w].pc = "update_current"
  /\ LET id == blog.calls[w].id IN
       IF id \in DOMAIN blog.posts
       THEN /\ blog' = [blog EXCEPT !.calls[w] =
                 [pc |-> "update_write", op |-> "update_post", id |-> id,
                  user_id |-> blog.calls[w].user_id, req |-> blog.calls[w].req,
                  current |-> blog.posts[id]]]
            /\ response' = NoResponse
       ELSE /\ response' = BlogResponse(w, blog.calls[w], "PostNotFound")
            /\ blog' = [blog EXCEPT !.calls[w] = Idle]
  /\ UNCHANGED <<orders, balances, next_order_id, creating, issued, returned,
                 cancelledOk, subs, locks, calls>>

\* title.unwrap_or(&current.title)
UnwrapOr(opt, default) == IF opt = None THEN default ELSE opt

\* PostRepository::update, lines 103-122: the UPDATE .. RETURNING; with no
\* row of that id fetch_one fails, and the sqlx error returns as
\* AppError::Database
UpdatePostUpdate(w, t) ==
  /\ blog.calls[w].pc = "update_write"
  /\ LET id == blog.calls[w].id
         req == blog.calls[w].req
         current == blog.calls[w].current
     IN IF id \in DOMAIN blog.posts
        THEN /\ blog' = [blog EXCEPT
                  !.posts[id].title = UnwrapOr(req.title, current.title),
                  !.posts[id].content = UnwrapOr(req.content, current.content),
                  !.posts[id].updated_at = t,
                  !.calls[w] =
                    [pc |-> "update_author", op |-> "update_post", id |-> id,
                     user_id |-> blog.calls[w].user_id, req |-> req]]
             /\ response' = NoResponse
        ELSE /\ response' = BlogResponse(w, blog.calls[w], "Database")
             /\ blog' = [blog EXCEPT !.calls[w] = Idle]
  /\ UNCHANGED <<orders, balances, next_order_id, creating, issued, returned,
                 cancelledOk, subs, locks, calls>>

\* update_post, lines 96-103: find_author_username, and the return
UpdatePostAuthor(w) ==
  /\ blog.calls[w].pc = "update_author"
  /\ response' = BlogResponse(w, blog.calls[w], "Ok")
  /\ blog' = [blog EXCEPT !.calls[w] = Idle]
  /\ UNCHANGED <<orders, balances, next_order_id, creating, issued, returned,
                 cancelledOk, subs, locks, calls>>

\* delete_post, lines 110-118: find_by_id and the check of the author
DeletePostFindById(w, id, user_id) ==
  /\ blog.calls[w] = Idle
  /\ user_id \in UserIds
  /\ LET call == [op |-> "delete_post", id |-> id, user_id |-> user_id]
         code == FindOutcome(id, user_id)
     IN IF code = "Ok"
        THEN /\ blog' = [blog EXCEPT !.calls[w] =
                  [pc |-> "delete", op |-> "delete_post", id |-> id,
                   user_id |-> user_id]]
             /\ response' = NoResponse
        ELSE /\ response' = BlogResponse(w, call, code)
             /\ UNCHANGED blog
  /\ UNCHANGED <<orders, balances, next_order_id, creating, issued, returned,
                 cancelledOk, subs, locks, calls>>

\* delete_post, lines 120-124, and PostRepository::delete: the DELETE; no
\* row affected returns PostNotFound
DeletePostDelete(w) ==
  /\ blog.calls[w].pc = "delete"
  /\ LET id == blog.calls[w].id IN
       IF id \in DOMAIN blog.posts
       THEN /\ response' = BlogResponse(w, blog.calls[w], "Ok")
            /\ blog' = [blog EXCEPT
                 !.posts = [i \in DOMAIN @ \ {id} |-> @[i]],
                 !.calls[w] = Idle]
       ELSE /\ response' = BlogResponse(w, blog.calls[w], "PostNotFound")
            /\ blog' = [blog EXCEPT !.calls[w] = Idle]
  /\ UNCHANGED <<orders, balances, next_order_id, creating, issued, returned,
                 cancelledOk, subs, locks, calls>>

(***************************************************************************)
(* Specifications.                                                         *)
(***************************************************************************)
Next ==
  \/ \E r \in CoreCreateOrderRequests : CreateOrderInvalid(r)
  \/ \E r \in CoreCreateOrderRequests, t \in Timestamps :
       CreateOrderAllocate(r, t)
  \/ \E i \in 1 .. NumCalls : CreateOrderInsert(i)
  \/ \E r \in CancelOrderRequests : CancelOrder(r)
  \/ \E r \in GetActiveOrdersRequests : GetActiveOrders(r)
  \/ \E r \in GetBalanceRequests : GetBalance(r)

\* the order table and the counter under concurrent unary calls
Spec == Init /\ [][Next]_vars

NextService ==
  \/ \E r \in ServiceCreateOrderRequests : CreateOrderInvalid(r)
  \/ \E r \in ServiceCreateOrderRequests, t \in Timestamps :
       CreateOrderAllocate(r, t)
  \/ \E i \in 1 .. NumCalls : CreateOrderInsert(i)
  \/ \E r \in ServiceCancelOrderRequests : CancelOrder(r)
  \/ \E r \in ServiceGetActiveOrdersRequests : GetActiveOrders(r)
  \/ \E r \in GetBalanceRequests : GetBalance(r)
  \/ \E r \in ServiceStreamQuotesRequests : StreamQuotesInvalid(r)
  \/ \E r \in ServiceStreamQuotesRequests : StreamQuotes(r)
  \/ \E k \in 1 .. MaxSubs : ProducerTick(k)
  \/ \E k \in 1 .. MaxSubs, t \in Timestamps : ProducerSend(k, t)
  \/ \E k \in 1 .. MaxSubs : ConsumerRecv(k)
  \/ \E k \in 1 .. MaxSubs : ConsumerDrop(k)

\* the five operations together, next to the subscriptions' producers and
\* consumers
SpecService == Init /\ [][NextService]_vars

NextStream ==
  \/ \E r \in OneStreamQuotesRequests : StreamQuotesInvalid(r)
  \/ \E r \in OneStreamQuotesRequests : subs = << >> /\ StreamQuotes(r)
  \/ ProducerTickWithin(1, MaxStreamTicks)
  \/ \E t \in StreamTimestamps : ProducerSend(1, t)
  \/ ConsumerRecv(1)
  \/ ConsumerDrop(1)

\* one subscription from the call that opens it to the end of its producer
\* (a subscription shares no state with another, nor with the tables)
SpecStream == Init /\ [][NextStream]_vars

\* every value the fields type, price and quantity of a create_order
\* request can carry, for one user and one symbol
InputCreateOrderRequests ==
  {r \in CreateOrderRequests : r.user_id = "u1" /\ r.symbol \in {"BTC", ""}}
InputCancelOrderRequests ==
  {r \in CancelOrderRequests : r.user_id = "u1"}
InputGetActiveOrdersRequests ==
  {r \in GetActiveOrdersRequests : r.user_id = "u1"}

NextInputs ==
  \/ \E r \in InputCreateOrderRequests : CreateOrderInvalid(r)
  \/ \E r \in InputCreateOrderRequests, t \in Timestamps :
       CreateOrderAllocate(r, t)
  \/ \E i \in 1 .. NumCalls : CreateOrderInsert(i)
  \/ \E r \in InputCancelOrderRequests : CancelOrder(r)
  \/ \E r \in InputGetActiveOrdersRequests : GetActiveOrders(r)

\* the order table under create_order requests of every kind
SpecInputs == Init /\ [][NextInputs]_vars

\* a symbols list with one entry more than the channel has room for
LongSymbols ==
  [j \in 1 .. (ChannelCapacity + 1) |-> IF j % 3 = 0 THEN "ETH" ELSE "BTC"]
BackpressureStreamQuotesRequests ==
  {[symbols |-> l] : l \in {<< >>, <<"BTC", "ETH", "BTC">>, LongSymbols}}

NextBackpressure ==
  \/ \E r \in BackpressureStreamQuotesRequests : StreamQuotesInvalid(r)
  \/ \E r \in BackpressureStreamQuotesRequests :
       subs = << >> /\ StreamQuotes(r)
  \/ ProducerTickWithin(1, MaxStreamTicks)
  \/ \E t \in Timestamps : ProducerSend(1, t)
  \/ ConsumerRecv(1)
  \/ ConsumerDrop(1)

\* one subscription whose consumer can be slower than its producer, so that
\* the channel fills
SpecBackpressure == Init /\ [][NextBackpressure]_vars

NextDisconnect ==
  \/ \E r \in BackpressureStreamQuotesRequests : StreamQuotesInvalid(r)
  \/ \E r \in BackpressureStreamQuotesRequests :
       subs = << >> /\ StreamQuotes(r)
  \/ ProducerTick(1)
  \/ \E t \in Timestamps : ProducerSend(1, t)
  \/ ConsumerRecv(1)
  \/ ConsumerDrop(1)

\* one subscription up to the end of its producer after a disconnect
SpecDisconnect == Init /\ [][NextDisconnect]_vars

\* the runtime schedules the spawned task whenever it can run: its timer
\* fires, and its send completes once the channel has room or is closed
SpecDisconnectFair ==
  /\ SpecDisconnect
  /\ WF_vars(ProducerTick(1))
  /\ WF_vars(\E t \in Timestamps : ProducerSend(1, t))

\* the symbols lists of two subscriptions followed side by side: one symbol,
\* and a symbol listed twice around another
PairStreamQuotesRequests ==
  {[symbols |-> l] : l \in {<<"BTC">>, <<"BTC", "ETH", "BTC">>}}

NextPair ==
  \/ \E r \in PairStreamQuotesRequests : StreamQuotesWithin(r, 2)
  \/ \E k \in 1 .. 2 : ProducerTick(k)
  \/ \E k \in 1 .. 2, t \in StreamTimestamps : ProducerSend(k, t)

\* two subscriptions side by side, their quotes kept in their channels
SpecPair == Init /\ [][NextPair]_vars

\* a step of a call that has started: a guard is granted, or the guarded
\* section runs
TaskStep(p) ==
  \/ CreateOrderLockId(p)
  \/ CreateOrderLockOrders(p)
  \/ CancelOrderLock(p)
  \/ GetActiveOrdersLock(p)
  \/ GetBalanceLock(p)
  \/ CreateOrderTakeId(p)
  \/ \E t \in Timestamps : CreateOrderBuild(p, t)
  \/ CreateOrderStore(p)
  \/ CancelOrderMatch(p)
  \/ CancelOrderReturn(p)
  \/ GetActiveOrdersCollect(p)
  \/ GetBalanceLookup(p)

\* the task whose unary calls run next to the two subscriptions
UnaryTask == "t1"
\* the first subscription's list fills its channel within one tick; the
\* second subscription's list is one symbol
StalledStreamQuotesRequests == {[symbols |-> LongSymbols]}
LiveStreamQuotesRequests == {[symbols |-> <<"BTC">>]}

NextIndependent ==
  \/ \E r \in StalledStreamQuotesRequests :
       subs = << >> /\ StreamQuotesWithin(r, 2)
  \/ \E r \in LiveStreamQuotesRequests :
       subs # << >> /\ StreamQuotesWithin(r, 2)
  \/ \E k \in 1 .. 2 : ProducerTick(k)
  \/ \E k \in 1 .. 2, t \in Timestamps : ProducerSend(k, t)
  \/ ConsumerDrop(1)
  \/ ConsumerRecv(2)
  \/ \E r \in TaskCreateOrderRequests : CreateOrderReject(UnaryTask, r)
  \/ \E r \in TaskCreateOrderRequests : CreateOrderBegin(UnaryTask, r)
  \/ \E r \in TaskCancelOrderRequests : CancelOrderBegin(UnaryTask, r)
  \/ \E r \in TaskGetActiveOrdersRequests :
       GetActiveOrdersBegin(UnaryTask, r)
  \/ \E r \in TaskGetBalanceRequests : GetBalanceBegin(UnaryTask, r)
  \/ TaskStep(UnaryTask)

\* a subscription whose consumer takes nothing, or goes away, next to a
\* subscription whose consumer reads and to the unary calls of one task
SpecIndependent == Init /\ [][NextIndependent]_vars

NextTasks ==
  \/ \E p \in Tasks, r \in TaskCreateOrderRequests : CreateOrderReject(p, r)
  \/ \E p \in Tasks, r \in TaskCreateOrderRequests : CreateOrderBegin(p, r)
  \/ \E p \in Tasks, r \in TaskCancelOrderRequests : CancelOrderBegin(p, r)
  \/ \E p \in Tasks, r \in TaskGetActiveOrdersRequests :
       GetActiveOrdersBegin(p, r)
  \/ \E p \in Tasks, r \in TaskGetBalanceRequests : GetBalanceBegin(p, r)
  \/ \E p \in Tasks : TaskStep(p)
  \/ \E r \in ServiceStreamQuotesRequests : subs = << >> /\ StreamQuotes(r)
  \/ ProducerTick(1)
  \/ \E t \in Timestamps : ProducerSend(1, t)

\* the unary calls of the tasks, guard by guard, next to a subscription
\* whose consumer takes nothing from the channel
SpecTasks == Init /\ [][NextTasks]_vars

\* the runtime runs every task that can run: a task at the head of a
\* lock's queue is woken when the lock can grant its guard; nothing is
\* required of the subscription, whose producer may stop at any point
SpecTasksFair ==
  /\ SpecTasks
  /\ \A p \in Tasks : WF_vars(TaskStep(p))

\* the register requests of the specification of the registrations: one
\* username with either email, and another username
RaceRegisterRequests ==
  {r \in RegisterRequests : r.username = "alice" \/ r.email = "b@x"}

NextRegister ==
  \/ \E w \in BlogWorkers, r \in RaceRegisterRequests :
       RegisterFindByUsername(w, r)
  \/ \E w \in BlogWorkers : RegisterFindByEmail(w)
  \/ \E w \in BlogWorkers, t \in Timestamps : RegisterCreate(w, t)
  \/ \E w \in BlogWorkers, t \in Timestamps :
       RegisterCreateUnconstrained(w, t)

\* concurrent registrations
SpecRegister == Init /\ [][NextRegister]_vars

\* the register requests of the specification of the posts: two users
PostsRegisterRequests ==
  {r \in RegisterRequests :
     (r.username = "alice" /\ r.email = "a@x")
       \/ (r.username = "bob" /\ r.email = "b@x")}
PostsUpdatePostRequests ==
  {r \in UpdatePostRequests : r.title = "T2" /\ r.content = None}

NextPosts ==
  \/ \E w \in BlogWorkers, r \in PostsRegisterRequests :
       RegisterFindByUsername(w, r)
  \/ \E w \in BlogWorkers : RegisterFindByEmail(w)
  \/ \E w \in BlogWorkers, t \in Timestamps : RegisterCreate(w, t)
  \/ \E w \in BlogWorkers, u \in 1 .. MaxUsers, r \in CreatePostRequests,
        t \in Timestamps : CreatePostCreate(w, u, r, t)
  \/ \E w \in BlogWorkers : CreatePostAuthor(w)
  \/ \E w \in BlogWorkers, id \in PostIds, u \in 1 .. MaxUsers,
        r \in PostsUpdatePostRequests : UpdatePostFindById(w, id, u, r)
  \/ \E w \in BlogWorkers : UpdatePostCurrent(w)
  \/ \E w \in BlogWorkers, t \in Timestamps : UpdatePostUpdate(w, t)
  \/ \E w \in BlogWorkers : UpdatePostAuthor(w)
  \/ \E w \in BlogWorkers, id \in PostIds, u \in 1 .. MaxUsers :
       DeletePostFindById(w, id, u)
  \/ \E w \in BlogWorkers : DeletePostDelete(w)

\* the posts of two users under concurrent requests
SpecPosts == Init /\ [][NextPosts]_vars

(***************************************************************************)
(* Properties of the order table and the id counter.                       *)
(***************************************************************************)
InvalidCreate(r) == F64LeZero(r.price) \/ r.quantity <= 0 \/ r.symbol = ""

\* C1: whenever every create_order call that was started has returned, no id
\* was returned twice and, with N the number of ids returned, the set of
\* returned ids and the key set of the order table are both 1..N.
C1_IdsAreOneToN ==
  creating = << >> =>
    /\ \A i \in DOMAIN returned : returned[i] <= 1
    /\ ReturnedIds = 1 .. Cardinality(ReturnedIds)
    /\ DOMAIN orders = ReturnedIds

\* two overlapping calls have returned: the call that got id 1 returns after
\* the call that got id 2
C1_Witness ==
  /\ creating = << >>
  /\ response.op = "create_order" /\ response.code = "Ok"
  /\ response.order.id = 1
  /\ returned[2] = 1

\* C2: the ids are issued in strictly increasing order starting at 1 (so none
\* is issued twice), and a create_order call returns an id larger than every
\* id that a create_order call had returned when it started.
C2_IdsStrictlyIncrease ==
  /\ issued # << >> => issued[1] = 1
  /\ \A i, j \in DOMAIN issued : i < j => issued[i] < issued[j]
  /\ (response.op = "create_order" /\ response.code = "Ok") =>
       \A k \in response.seen.created : response.order.id > k

\* a call that started after id 1 was returned, and after the order with
\* id 1 was cancelled, has returned
C2_Witness ==
  /\ response.op = "create_order" /\ response.code = "Ok"
  /\ 1 \in response.seen.created
  /\ 1 \in response.seen.cancelled
  /\ response.order.id = 2

\* C3: a create_order call whose request has price <= 0, quantity <= 0 or an
\* empty symbol returns InvalidArgument, and the step in which it returns
\* changes neither the order table nor the id counter.
C3_InvalidCreateHasNoEffect ==
  [][(response'.op = "create_order" /\ InvalidCreate(response'.req)) =>
       /\ response'.code = "InvalidArgument"
       /\ orders' = orders
       /\ next_order_id' = next_order_id]_vars

\* a request with quantity 0 only was rejected while the table holds an order
C3_Witness ==
  /\ response.op = "create_order" /\ response.code = "InvalidArgument"
  /\ response.req.quantity = 0
  /\ F64GtZero(response.req.price) /\ response.req.symbol # ""
  /\ orders # << >>
  /\ next_order_id = 2

\* C4: a cancel_order call that names an existing order with another user's
\* id returns PermissionDenied, whatever the order's status, and leaves the
\* order table as it was.
C4_NonOwnerCancelDenied ==
  [][(/\ response'.op = "cancel_order"
      /\ response'.req.order_id \in DOMAIN orders
      /\ orders[response'.req.order_id].user_id # response'.req.user_id) =>
       /\ response'.code = "PermissionDenied"
       /\ orders' = orders]_vars

\* a non-owner was denied the cancellation of an order already cancelled
C4_Witness ==
  /\ response.op = "cancel_order" /\ response.code = "PermissionDenied"
  /\ response.req.order_id \in DOMAIN orders
  /\ orders[response.req.order_id].status = Cancelled
  /\ orders[response.req.order_id].user_id # response.req.user_id

\* C5: a cancel_order call by the owner of an order that is already
\* Cancelled returns FailedPrecondition and leaves the order table as it
\* was, and no order id ever has more than one successful cancel_order call.
C5_CancelSucceedsAtMostOnce ==
  [][/\ (/\ response'.op = "cancel_order"
         /\ response'.req.order_id \in DOMAIN orders
         /\ orders[response'.req.order_id].user_id = response'.req.user_id
         /\ orders[response'.req.order_id].status = Cancelled) =>
          /\ response'.code = "FailedPrecondition"
          /\ orders' = orders
     /\ \A i \in DOMAIN cancelledOk' : cancelledOk'[i] <= 1]_vars

\* the owner's second cancel_order of an order failed
C5_Witness ==
  /\ response.op = "cancel_order" /\ response.code = "FailedPrecondition"
  /\ cancelledOk[response.req.order_id] = 1
  /\ orders[response.req.order_id].user_id = response.req.user_id

OtherFieldsSame(o1, o2) ==
  /\ o1.id = o2.id /\ o1.user_id = o2.user_id /\ o1.symbol = o2.symbol
  /\ o1.type = o2.type /\ o1.price = o2.price /\ o1.quantity = o2.quantity
  /\ o1.filled_quantity = o2.filled_quantity /\ o1.created_at = o2.created_at

\* C6: a cancel_order call whose order id is not a key of the order table
\* when it holds the lock returns NotFound and leaves the table as it was; a
\* successful call keeps the key set and every other entry, and changes only
\* the status of the named entry, from Pending to Cancelled.
C6_NotFoundAndSingleFieldChange ==
  [][response'.op = "cancel_order" =>
       LET k == response'.req.order_id IN
         /\ k \notin DOMAIN orders =>
              response'.code = "NotFound" /\ orders' = orders
         /\ response'.code = "Ok" =>
              /\ k \in DOMAIN orders
              /\ DOMAIN orders' = DOMAIN orders
              /\ \A i \in DOMAIN orders \ {k} : orders'[i] = orders[i]
              /\ orders[k].status = Pending
              /\ orders'[k].status = Cancelled
              /\ OtherFieldsSame(orders'[k], orders[k])]_vars

\* NotFound for an id that was allocated but is not inserted yet
C6_Witness ==
  /\ response.op = "cancel_order" /\ response.code = "NotFound"
  /\ response.req.order_id \in Range(issued)
  /\ response.req.order_id \notin DOMAIN orders

MatchesFilter(o, r) ==
  o.user_id = r.user_id /\ (r.symbol = "" \/ o.symbol = r.symbol)

\* C7: create_order with a request that passes the validation returns Ok; a
\* get_active_orders call finds every order that a create_order call of its
\* user has returned before it (and that its symbol filter admits) in the
\* table, and returns it with status Pending unless a cancel_order of it has
\* succeeded; it returns no order whose successful cancel_order has returned
\* before it, and that order is still in the table, Cancelled.
C7_ReadYourWrites ==
  /\ (response.op = "create_order" /\ ~InvalidCreate(response.req)) =>
       response.code = "Ok"
  /\ response.op = "get_active_orders" =>
       /\ \A k \in ReturnedIds :
            /\ k \in DOMAIN orders
            /\ (MatchesFilter(orders[k], response.req) /\ cancelledOk[k] = 0) =>
                 \E o \in response.orders : o.id = k /\ o.status = Pending
       /\ \A k \in CancelledIds :
            /\ \A o \in response.orders : o.id # k
            /\ k \in DOMAIN orders
            /\ orders[k].status = Cancelled

\* the user has one order created and cancelled, and one created and still
\* listed
C7_Witness ==
  /\ response.op = "get_active_orders"
  /\ CancelledIds = {1}
  /\ ReturnedIds = {1, 2}
  /\ orders[1].user_id = response.req.user_id
  /\ \E o \in response.orders : o.id = 2

\* C8: get_active_orders returns Ok with exactly the orders of the table it
\* reads that belong to the user, are Pending and, when the request's symbol
\* is not empty, have that symbol; its step changes no shared state.
C8_ActiveOrdersExactFilter ==
  [][response'.op = "get_active_orders" =>
       /\ response'.code = "Ok"
       /\ \A k \in DOMAIN orders :
            (orders[k] \in response'.orders) <=>
              /\ orders[k].user_id = response'.req.user_id
              /\ orders[k].status = Pending
              /\ (response'.req.symbol # "" =>
                    orders[k].symbol = response'.req.symbol)
       /\ \A o \in response'.orders : \E k \in DOMAIN orders : orders[k] = o
       /\ orders' = orders
       /\ balances' = balances
       /\ next_order_id' = next_order_id]_vars

\* the symbol filter kept one of the user's two pending orders and dropped
\* the other
C8_Witness ==
  /\ response.op = "get_active_orders"
  /\ response.req.symbol # ""
  /\ Cardinality(response.orders) = 1
  /\ \E k \in DOMAIN orders :
       /\ orders[k].user_id = response.req.user_id
       /\ orders[k].status = Pending
       /\ orders[k].symbol # response.req.symbol

\* C10: an order's status changes only from Pending to Cancelled and only in
\* the step of a successful cancel_order that names the order with its own
\* user_id; an order that is Cancelled stays in the table with every field
\* as it is.
C10_StatusOnlyPendingToCancelled ==
  [][\A k \in DOMAIN orders :
       /\ (k \in DOMAIN orders' /\ orders'[k].status # orders[k].status) =>
            /\ orders[k].status = Pending
            /\ orders'[k].status = Cancelled
            /\ response'.op = "cancel_order"
            /\ response'.code = "Ok"
            /\ response'.req.order_id = k
            /\ response'.req.user_id = orders[k].user_id
       /\ orders[k].status = Cancelled =>
            k \in DOMAIN orders' /\ orders'[k] = orders[k]]_vars

\* an order was cancelled and operations of both users went on after it
C10_Witness ==
  /\ response.op = "cancel_order" /\ response.code = "PermissionDenied"
  /\ cancelledOk[response.req.order_id] = 1
  /\ Cardinality(DOMAIN orders) = 2

\* C9: the balance table holds no pair in any state reached by the five
\* operations, and every get_balance call returns Ok with balance 0.0 and
\* the user id and currency of its request.
C9_BalanceIsZeroAndEchoed ==
  /\ \A u \in Users : u \notin DOMAIN balances
  /\ response.op = "get_balance" =>
       /\ response.code = "Ok"
       /\ response.balance = F64(0)
       /\ response.user_id = response.req.user_id
       /\ response.currency = response.req.currency

\* get_balance returned after an order was created and cancelled and while
\* a subscription has delivered a quote
C9_Witness ==
  /\ response.op = "get_balance"
  /\ \E k \in DOMAIN orders :
       orders[k].user_id = response.req.user_id /\ cancelledOk[k] = 1
  /\ Len(subs) = 1
  /\ subs[1].delivered >= 1

\* C11: an id that is a key of the order table is a key after every step,
\* and no step changes the id, user_id, symbol, side, price, quantity or
\* created_at of its entry.
C11_OrdersKeptAndFrozen ==
  [][\A k \in DOMAIN orders :
       /\ k \in DOMAIN orders'
       /\ orders'[k].id = orders[k].id
       /\ orders'[k].user_id = orders[k].user_id
       /\ orders'[k].symbol = orders[k].symbol
       /\ orders'[k].type = orders[k].type
       /\ orders'[k].price = orders[k].price
       /\ orders'[k].quantity = orders[k].quantity
       /\ orders'[k].created_at = orders[k].created_at]_vars

\* the first order was cancelled, and a create_order call that had its id
\* before that inserted the second order after it
C11_Witness ==
  /\ response.op = "create_order" /\ response.code = "Ok"
  /\ response.order.id = 2
  /\ 1 \notin response.seen.cancelled
  /\ 1 \in DOMAIN orders
  /\ orders[1].status = Cancelled
  /\ orders[1].quantity = 100
  /\ orders[1].id = 1

(***************************************************************************)
(* Properties of the subscriptions.                                        *)
(***************************************************************************)
\* C12: a stream_quotes call with an empty symbols list returns
\* InvalidArgument and its step changes nothing (no subscription, channel or
\* producer appears); a call with a non-empty list returns Ok, and its step
\* adds exactly one subscription, with an empty channel, an open receiver
\* and a producer at its first tick, and leaves the others as they were.
C12_StreamQuotesChecksSymbols ==
  [][response'.op = "stream_quotes" =>
       /\ response'.req.symbols = << >> =>
            /\ response'.code = "InvalidArgument"
            /\ subs' = subs
            /\ orders' = orders
            /\ balances' = balances
            /\ next_order_id' = next_order_id
       /\ response'.req.symbols # << >> =>
            /\ response'.code = "Ok"
            /\ Len(subs') = Len(subs) + 1
            /\ \A k \in DOMAIN subs : subs'[k] = subs[k]
            /\ subs'[Len(subs')].symbols = response'.req.symbols
            /\ subs'[Len(subs')].chan = << >>
            /\ subs'[Len(subs')].rx = "open"
            /\ subs'[Len(subs')].pc = "tick"
            /\ subs'[Len(subs')].ticks = 0]_vars

\* a call with an empty list was rejected while a subscription is open and
\* has a quote in its channel
C12_Witness ==
  /\ response.op = "stream_quotes" /\ response.code = "InvalidArgument"
  /\ Len(subs) = 1
  /\ subs[1].rx = "open"
  /\ subs[1].chan # << >>

\* the quotes a subscription has put in its channel and not lost: those the
\* consumer got and those that wait in the channel
QuotesOf(sub) == Range(sub.received) \cup Range(sub.chan)

\* prices are in units of 1/10000 rounded down, so ask = bid * 1.001 reads
\* ask - bid = floor(bid / 1000), and last = (bid + ask) / 2 reads
\* last = floor((bid + ask) / 2)
QuoteWellFormed(q) ==
  /\ q.bid > 0
  /\ (q.ask - q.bid) * 1000 <= q.bid
  /\ q.bid < ((q.ask - q.bid) + 1) * 1000
  /\ q.ask >= q.bid
  /\ 2 * q.last <= q.bid + q.ask
  /\ q.bid + q.ask < (2 * q.last) + 2
  /\ q.bid <= q.last
  /\ q.last <= q.ask

\* C13: every quote that a subscription holds in its channel or has delivered
\* has a symbol of the subscription's symbols list, bid > 0,
\* ask = bid * 1.001 (so ask >= bid) and last = (bid + ask) / 2 (so
\* bid <= last <= ask).
C13_QuotesWellFormed ==
  \A k \in DOMAIN subs :
    \A q \in QuotesOf(subs[k]) :
      /\ \E j \in DOMAIN subs[k].symbols : subs[k].symbols[j] = q.symbol
      /\ QuoteWellFormed(q)

\* the consumer got the quotes of more than one tick, of both symbols of the
\* list and built at two readings of the clock
C13_Witness ==
  /\ Len(subs) = 1
  /\ Len(subs[1].symbols) = 3
  /\ Len(subs[1].received) >= 4
  /\ \E i, j \in DOMAIN subs[1].received :
       /\ subs[1].received[i].symbol = "BTC"
       /\ subs[1].received[j].symbol = "ETH"
       /\ subs[1].received[i].timestamp # subs[1].received[j].timestamp
       /\ subs[1].received[i].bid # 50000 * 10000

\* C14: once the receiver of the subscription is gone, no quote enters the
\* channel; the producer's next send attempt ends the task, whether it was
\* waiting for room in a full channel (then the attempt is the next step it
\* takes) or for its timer (then it takes one tick first, and no second one),
\* so the rest of the symbols list is not sent; an ended task takes no step;
\* and under the runtime's fair scheduling the task does end.
C14_ProducerStopsAfterDrop ==
  /\ [][(Len(subs) = 1 /\ subs[1].rx = "dropped") =>
          /\ subs'[1].chan = << >>
          /\ subs'[1].received = subs[1].received
          /\ (subs[1].pc = "send" /\ subs' # subs) => subs'[1].pc = "exited"
          /\ (subs[1].pc = "tick" /\ subs' # subs) =>
               subs'[1].pc = "send" /\ subs'[1].i = 1
          /\ subs[1].pc = "exited" => subs' = subs]_vars
  /\ (Len(subs) = 1 /\ subs[1].rx = "dropped")
       ~> (Len(subs) = 1 /\ subs[1].pc = "exited")

\* the task has ended after the receiver went away while the task was
\* waiting for room in the full channel
C14_Witness ==
  /\ Len(subs) = 1
  /\ subs[1].rx = "dropped"
  /\ subs[1].full_at_drop
  /\ subs[1].pc = "exited"
  /\ subs[1].chan = << >>

\* the symbol of the k-th quote of a subscription, k = 0, 1, 2, ...
SymbolAt(sub, k) == sub.symbols[(k % Len(sub.symbols)) + 1]

\* the number of sends the producer has completed: the full ticks, and the
\* entries of the tick in progress that come before the one it is at
SendsCompleted(sub) ==
  IF sub.pc = "send"
  THEN ((sub.ticks - 1) * Len(sub.symbols)) + (sub.i - 1)
  ELSE sub.ticks * Len(sub.symbols)

\* C15: the k-th quote the consumer got (k = 0, 1, ...) has the symbol
\* s[k mod n] of the subscription's list s of length n; while the receiver
\* is open the quotes that wait in the channel continue that sequence, and
\* the quotes got and waiting are as many as the sends the producer has
\* completed, one per list entry of each tick in list order: none is
\* skipped, repeated or reordered, and the channel never holds more than its
\* capacity.
C15_QuotesInListOrder ==
  \A k \in DOMAIN subs :
    /\ \A j \in DOMAIN subs[k].received :
         subs[k].received[j].symbol = SymbolAt(subs[k], j - 1)
    /\ subs[k].delivered = Len(subs[k].received)
    /\ Len(subs[k].chan) <= ChannelCapacity
    /\ subs[k].rx = "open" =>
         /\ \A j \in DOMAIN subs[k].chan :
              subs[k].chan[j].symbol =
                SymbolAt(subs[k], (Len(subs[k].received) + j) - 1)
         /\ Len(subs[k].received) + Len(subs[k].chan) = SendsCompleted(subs[k])

\* the producer waits for room in the full channel in its second tick: the
\* consumer has got quotes, and the channel holds quotes of both ticks
C15_Witness ==
  /\ Len(subs) = 1
  /\ subs[1].rx = "open"
  /\ subs[1].pc = "send"
  /\ subs[1].ticks = 2
  /\ Len(subs[1].chan) = ChannelCapacity
  /\ Len(subs[1].received) >= 2
  /\ Len(subs[1].received) < Len(subs[1].symbols)

(***************************************************************************)
(* Properties of the locks.                                                *)
(***************************************************************************)
\* the tasks whose handler is inside a section that needs write access to
\* the order table (create_order's insertion, cancel_order)
OrdersWriters ==
  {p \in Tasks : calls[p].pc \in {"orders_held", "cancel_held", "cancel_done"}}
\* the tasks whose handler is inside get_active_orders' read of the table
OrdersReaders == {p \in Tasks : calls[p].pc = "active_held"}

\* C16: in every state at most one handler is inside a section with write
\* access to the order table, and while one is, no handler is inside
\* get_active_orders' read (so no read sees a cancel_order between its
\* status assignment and its return); the handlers inside their sections
\* are exactly the holders of the lock's write and read guards.
C16_OneWriterOrManyReaders ==
  /\ Cardinality(OrdersWriters) <= 1
  /\ OrdersWriters # {} => OrdersReaders = {}
  /\ locks.orders.writers = OrdersWriters
  /\ locks.orders.readers = OrdersReaders

\* two get_active_orders calls hold read access at the same time while a
\* cancel_order call waits for write access
C16_Witness ==
  /\ Cardinality(OrdersReaders) = 2
  /\ \E p \in Tasks : calls[p].pc = "cancel_wait"
  /\ locks.orders.writers = {}

\* C17 as stated: whenever no handler holds the write guard of the order
\* table, the key set of the table is exactly 1 .. next_order_id - 1.
C17_KeysAreAllIssuedIds ==
  locks.orders.writers = {} => DOMAIN orders = 1 .. (next_order_id - 1)

\* C17 as amended: the id is taken under the write guard of the counter and
\* the order is inserted later under the write guard of the table; in every
\* state the keys of the table and the ids held by create_order calls that
\* have not inserted yet are disjoint, each held id is held by one call, and
\* together they are exactly 1 .. next_order_id - 1 (so the key set is
\* 1 .. next_order_id - 1 whenever no create_order call is between its two
\* sections).
C17_KeysAndHeldIdsAreIssuedIds ==
  /\ DOMAIN orders \cup HeldIds = 1 .. (next_order_id - 1)
  /\ DOMAIN orders \cap HeldIds = {}
  /\ Cardinality(HeldIds) =
       Cardinality({p \in Tasks : calls[p].pc \in Holding})

\* the order with id 2 is in the table, readable, while the call that holds
\* id 1 has not inserted it
C17_Witness ==
  /\ locks.orders.writers = {}
  /\ DOMAIN orders = {2}
  /\ HeldIds = {1}
  /\ next_order_id = 3

LockNames == {"orders", "balances", "next_order_id"}
\* the locks of which the task holds a guard
GuardsOf(p) ==
  {n \in LockNames : p \in locks[n].writers \cup locks[n].readers}

\* C18: no task ever holds a guard of more than one of the three locks, no
\* step of a subscription (its start, a tick, a send) touches a lock or a
\* call, and under fair scheduling of the tasks, with the locks' queues
\* first-in first-out, every task is again and again without a call: every
\* create_order, cancel_order, get_balance and get_active_orders call that
\* has started returns, whether or not the subscription's producer goes on.
C18_UnaryCallsReturn ==
  /\ [](\A p \in Tasks : Cardinality(GuardsOf(p)) <= 1)
  /\ [][subs' # subs => (locks' = locks /\ calls' = calls)]_vars
  /\ \A p \in Tasks : []<>(calls[p] = Idle)

\* a create_order call holds the write guard of the order table while a
\* cancel_order call and a get_active_orders call wait for the lock and a
\* subscription has a quote that nobody takes
C18_Witness ==
  /\ Len(subs) = 1 /\ subs[1].chan # << >>
  /\ \E p \in Tasks : calls[p].pc = "orders_held"
  /\ \E p \in Tasks : calls[p].pc = "cancel_wait"
  /\ \E p \in Tasks : calls[p].pc = "active_wait"

(***************************************************************************)
(* Properties of the stored orders' fields.                                *)
(***************************************************************************)
\* C19: every order in the order table, every order that create_order
\* returns and every order that get_active_orders returns has a side that
\* is Buy or Sell.
C19_SideIsBuyOrSell ==
  /\ \A k \in DOMAIN orders : orders[k].type \in {Buy, Sell}
  /\ (response.op = "create_order" /\ response.code = "Ok") =>
       response.order.type \in {Buy, Sell}
  /\ response.op = "get_active_orders" =>
       \A o \in response.orders : o.type \in {Buy, Sell}

\* C20: every order in the order table has price > 0, quantity > 0 and a
\* symbol that is not empty.
C20_StoredOrdersAreValid ==
  \A k \in DOMAIN orders :
    /\ F64GtZero(orders[k].price)
    /\ orders[k].quantity > 0
    /\ orders[k].symbol # ""

(***************************************************************************)
(* Properties of the entries of the order table.                           *)
(***************************************************************************)
\* C24: in every state every entry of the order table has id equal to its
\* key, key < next_order_id, filled_quantity = 0 and status Pending or
\* Cancelled; the step that inserts an entry is the return of a create_order
\* call, the entry it inserts has status Pending, and the order the call
\* returns is equal to that entry.
C24_EntriesAreComplete ==
  /\ [](\A k \in DOMAIN orders :
          /\ orders[k].id = k
          /\ k < next_order_id
          /\ orders[k].filled_quantity = 0
          /\ orders[k].status \in {Pending, Cancelled})
  /\ [][\A k \in DOMAIN orders' \ DOMAIN orders :
          /\ orders'[k].status = Pending
          /\ response'.op = "create_order"
          /\ response'.code = "Ok"
          /\ response'.order = orders'[k]]_vars

\* the order with id 2 was inserted and returned while the order with id 1,
\* allocated before it, is not in the table, and a third id cannot be taken
C24_Witness ==
  /\ response.op = "create_order" /\ response.code = "Ok"
  /\ response.order.id = 2
  /\ DOMAIN orders = {2}
  /\ orders[2] = response.order
  /\ Len(creating) = 1
  /\ next_order_id = 3


(***************************************************************************)
(* Properties of the bounded channel.                                      *)
(***************************************************************************)
\* the producer of the subscription waits in send for room in the channel
\* of an open receiver
BlockedInSend(sub) ==
  sub.rx = "open" /\ sub.pc = "send" /\ Len(sub.chan) = ChannelCapacity

\* C25: the channel of a subscription never holds more than 128 quotes, and
\* while the receiver is open the sends the producer has completed exceed
\* the quotes the consumer has taken by at most 128; a producer at a send
\* can complete it exactly when the channel holds fewer than 128 quotes or
\* the receiver is gone; and while the producer waits at a full channel the
\* only steps of the subscription are the consumer's (it takes the oldest
\* quote, or it goes away): the producer stays at the same send of the same
\* tick, and the channel loses no quote but the one the consumer takes.
C25_ChannelHoldsAtMostCapacity ==
  /\ [](\A k \in DOMAIN subs :
          /\ Len(subs[k].chan) <= ChannelCapacity
          /\ subs[k].rx = "open" =>
               SendsCompleted(subs[k]) - subs[k].delivered <= ChannelCapacity
          /\ (k = 1 /\ subs[k].pc = "send") =>
               ((ENABLED (\E t \in Timestamps : ProducerSend(1, t)))
                  <=> (Len(subs[k].chan) < ChannelCapacity
                         \/ subs[k].rx = "dropped")))
  /\ [][\A k \in DOMAIN subs :
          (BlockedInSend(subs[k]) /\ subs'[k] # subs[k]) =>
            /\ subs'[k].pc = "send"
            /\ subs'[k].i = subs[k].i
            /\ subs'[k].ticks = subs[k].ticks
            /\ \/ /\ subs'[k].rx = "open"
                  /\ subs'[k].chan = Tail(subs[k].chan)
                  /\ subs'[k].received =
                       Append(subs[k].received, Head(subs[k].chan))
               \/ /\ subs'[k].rx = "dropped"
                  /\ subs'[k].received = subs[k].received]_vars

\* the producer waited at the full channel, the consumer took one quote, the
\* producer completed the send it was at, and at the first send of the next
\* tick it waits at the full channel again
C25_Witness ==
  /\ Len(subs) = 1
  /\ BlockedInSend(subs[1])
  /\ subs[1].ticks = 2
  /\ subs[1].i = 1
  /\ Len(subs[1].received) = 1
  /\ Len(subs[1].symbols) = ChannelCapacity + 1


(***************************************************************************)
(* Properties of the quotes' generation.                                   *)
(***************************************************************************)
\* the symbols of the base price match
BasePriceTable == {"BTC", "ETH", "USD"}
\* an item of the channel is a Result<Quote, Status>; the producer builds
\* Ok(quote) only, which is the quote here
QuoteFields == {"symbol", "bid", "ask", "last", "volume", "timestamp"}
IsOkQuote(item) == DOMAIN item = QuoteFields

\* C27: every item a subscription holds in its channel or has delivered is
\* a quote, never an error status; the quote of a symbol outside the base
\* price table has a bid within 1% of the fallback base price 100, and the
\* for loop goes on after it (while the receiver is open no send is
\* missing); a producer ends only at a send, and only when the receiver is
\* gone.
C27_StreamHasNoErrorPath ==
  /\ [](\A k \in DOMAIN subs :
          /\ \A item \in QuotesOf(subs[k]) :
               /\ IsOkQuote(item)
               /\ item.symbol \notin BasePriceTable =>
                    /\ 99 * 10000 <= item.bid
                    /\ item.bid < 101 * 10000
          /\ subs[k].rx = "open" =>
               Len(subs[k].received) + Len(subs[k].chan)
                 = SendsCompleted(subs[k])
          /\ subs[k].pc = "exited" => subs[k].rx = "dropped")
  /\ [][\A k \in DOMAIN subs :
          (subs'[k].pc = "exited" /\ subs[k].pc # "exited") =>
            subs[k].pc = "send" /\ subs[k].rx = "dropped"]_vars

\* the consumer got the quote of a symbol outside the table and the quote
\* of the symbol listed after it, then went away, and the producer ended
C27_Witness ==
  /\ Len(subs) = 1
  /\ subs[1].symbols = <<"DOGE", "USD">>
  /\ Len(subs[1].received) >= 2
  /\ subs[1].received[1].symbol = "DOGE"
  /\ subs[1].received[2].symbol = "USD"
  /\ subs[1].rx = "dropped"
  /\ subs[1].pc = "exited"


\* every quote the subscriptions hold or have delivered
AllQuotes == UNION {QuotesOf(subs[k]) : k \in DOMAIN subs}
\* bid / base_price, in units of 1/10000
Perturbation(q) == q.bid \div BasePrice(q.symbol)
\* the symbols a request of the specification can list
StreamSymbols ==
  UNION {Range(r.symbols) : r \in OneStreamQuotesRequests}

\* C28: the seed of a quote is timestamp XOR the length of its symbol, so
\* two symbols of the same length have the same seed at the same timestamp;
\* two quotes with the same timestamp whose symbols have the same length
\* have the same volume and the same bid / base_price (the bid is an exact
\* multiple of the base price), whatever their symbols.
C28_SeedDependsOnLengthOnly ==
  /\ \A s1 \in StreamSymbols, s2 \in StreamSymbols, t \in StreamTimestamps :
       /\ Seed(s1, t) = BitXor(t, SymbolLen(s1))
       /\ SymbolLen(s1) = SymbolLen(s2) => Seed(s1, t) = Seed(s2, t)
  /\ \A q1 \in AllQuotes, q2 \in AllQuotes :
       (q1.timestamp = q2.timestamp
          /\ SymbolLen(q1.symbol) = SymbolLen(q2.symbol)) =>
         /\ q1.volume = q2.volume
         /\ q1.bid % BasePrice(q1.symbol) = 0
         /\ Perturbation(q1) = Perturbation(q2)

\* the consumer got a quote of ETH and a quote of BTC built at the same
\* reading of the clock: the bids differ, the perturbation is not zero
C28_Witness ==
  /\ Len(subs) = 1
  /\ Len(subs[1].received) >= 2
  /\ subs[1].received[1].symbol = "ETH"
  /\ subs[1].received[2].symbol = "BTC"
  /\ subs[1].received[1].timestamp = subs[1].received[2].timestamp
  /\ subs[1].received[1].bid # subs[1].received[2].bid
  /\ Perturbation(subs[1].received[1]) # 10000


(***************************************************************************)
(* Properties of the users' views of the order table.                      *)
(***************************************************************************)
\* the entries of the order table that belong to the user
OrdersOf(v) == {orders[k] : k \in {i \in DOMAIN orders : orders[i].user_id = v}}
\* the number of ids the user's own create_order calls have taken
IdsTakenBy(v) ==
  Cardinality({k \in DOMAIN orders : orders[k].user_id = v})
    + Cardinality({i \in DOMAIN creating : creating[i].req.user_id = v})

\* the part of C29 about the table: get_active_orders returns orders of its
\* user only, and a step that adds, removes or changes an order of a user v
\* is the return of a successful create_order or cancel_order call made
\* with user id v
OrdersChangeByOwnerOnly ==
  /\ [](response.op = "get_active_orders" =>
          \A o \in response.orders : o.user_id = response.req.user_id)
  /\ [][orders' # orders =>
          \A v \in Users :
            LET after == {orders'[k] :
                            k \in {i \in DOMAIN orders' : orders'[i].user_id = v}}
            IN after # OrdersOf(v) =>
                 /\ response'.op \in {"create_order", "cancel_order"}
                 /\ response'.code = "Ok"
                 /\ response'.req.user_id = v]_vars

\* C29 as stated: besides the above, what a user v gets from
\* get_active_orders is the same whatever calls the other users make; then
\* it is what v gets when the others make no call at all, and there the ids
\* of v's orders are among 1 .. n for the n ids v's own calls have taken.
C29_ViewSameWhateverOthersDo ==
  /\ OrdersChangeByOwnerOnly
  /\ [](response.op = "get_active_orders" =>
          \A o \in response.orders :
            o.id \in 1 .. IdsTakenBy(response.req.user_id))

\* C29 as amended: get_active_orders returns orders of its user only; a
\* step that adds, removes or changes an order of a user v is the return of
\* a successful create_order or cancel_order made with user id v, so every
\* other step (every step of a call made with another user id) leaves what
\* get_active_orders(v) returns at that moment as it is, for every symbol
\* filter.  (The ids of v's orders come from the counter all users share.)
C29_OthersCallsLeaveOrdersOfUser ==
  /\ OrdersChangeByOwnerOnly
  /\ [][orders' # orders =>
          \A v \in Users, sym \in Symbols :
            LET req == [user_id |-> v, symbol |-> sym]
            IN ActiveOrders(orders', req) # ActiveOrders(orders, req) =>
                 response'.req.user_id = v]_vars

\* a user whose calls have taken one id gets its order listed with id 2:
\* the other user created the order with id 1 before, and has cancelled it
C29_Witness ==
  /\ response.op = "get_active_orders"
  /\ response.req.user_id = "u2"
  /\ IdsTakenBy("u2") = 1
  /\ \E o \in response.orders : o.id = 2
  /\ 1 \in DOMAIN orders
  /\ orders[1].user_id = "u1"
  /\ orders[1].status = Cancelled


(***************************************************************************)
(* Properties of the producer's timer.                                     *)
(***************************************************************************)
\* C30: the first tick of a subscription is due when its producer starts:
\* the producer at its first tick can take it at once, and when it has taken
\* n >= 1 ticks the timer has made it wait n - 1 periods, so the quotes of
\* its first round are sent without a wait; between two ticks the producer
\* has sent one quote per entry of the symbols list for every tick taken.
C30_FirstTickAtOnce ==
  \A k \in DOMAIN subs :
    /\ subs[k].ticks = 0 =>
         /\ subs[k].pc = "tick"
         /\ subs[k].deadline = 0
         /\ subs[k].chan = << >>
         /\ k = 1 => ENABLED ProducerTickWithin(1, MaxStreamTicks)
    /\ subs[k].ticks >= 1 => subs[k].elapsed = (subs[k].ticks - 1) * Period
    /\ (subs[k].rx = "open" /\ subs[k].pc = "tick") =>
         Len(subs[k].received) + Len(subs[k].chan)
           = subs[k].ticks * Len(subs[k].symbols)
    /\ (subs[k].rx = "open" /\ subs[k].pc = "send") =>
         /\ Len(subs[k].received) + Len(subs[k].chan)
              >= (subs[k].ticks - 1) * Len(subs[k].symbols)
         /\ Len(subs[k].received) + Len(subs[k].chan)
              < subs[k].ticks * Len(subs[k].symbols)

\* the quotes of the first round, one for each of the three entries of the
\* list, are in the channel and the timer has not made the producer wait
C30_Witness ==
  /\ Len(subs) = 1
  /\ Len(subs[1].symbols) = 3
  /\ subs[1].ticks = 1
  /\ subs[1].pc = "tick"
  /\ subs[1].elapsed = 0
  /\ Len(subs[1].chan) = 3
  /\ subs[1].received = << >>


\* C21: two quotes of the same symbol with the same timestamp, in one
\* subscription or in two, have the same bid, ask, last and volume; and the
\* step that builds and sends a quote changes its own subscription and
\* nothing else: not the other subscription, the tables, the counter, the
\* locks or a call.
C21_QuotesDeterministic ==
  /\ [](\A q1 \in AllQuotes, q2 \in AllQuotes :
          (q1.symbol = q2.symbol /\ q1.timestamp = q2.timestamp) =>
            /\ q1.bid = q2.bid
            /\ q1.ask = q2.ask
            /\ q1.last = q2.last
            /\ q1.volume = q2.volume)
  /\ [][\A k \in DOMAIN subs :
          subs'[k] # subs[k] =>
            /\ \A j \in DOMAIN subs \ {k} : subs'[j] = subs[j]
            /\ Len(subs') = Len(subs)
            /\ orders' = orders
            /\ balances' = balances
            /\ next_order_id' = next_order_id
            /\ locks' = locks
            /\ calls' = calls]_vars

\* the first subscription holds two quotes of BTC with the same timestamp,
\* built after a quote with another timestamp, and the second subscription,
\* opened after them, holds a quote of BTC with that timestamp too
C21_Witness ==
  /\ Len(subs) = 2
  /\ Len(subs[1].chan) = 3
  /\ subs[1].chan[1].timestamp = 1098
  /\ subs[1].chan[2].timestamp = 1000
  /\ subs[1].chan[3].timestamp = 1098
  /\ Len(subs[2].chan) = 1
  /\ subs[2].chan[1].symbol = "BTC"
  /\ subs[2].chan[1].timestamp = 1098


(***************************************************************************)
(* Properties of the subscriptions' independence.                          *)
(***************************************************************************)
\* C26: a step of a subscription (its producer's tick or send, its
\* consumer's read or drop) changes that subscription only: not another
\* subscription, a table, the counter, a lock or a call; and a step of a
\* unary call changes no subscription.  Whether the second subscription's
\* producer can tick or send depends on the second subscription alone, and
\* whether the task's call can take its next step does not depend on the
\* subscriptions, in every state, those where the first subscription's
\* producer waits at its full channel or has ended included.
C26_SubscriptionsIndependent ==
  /\ [][/\ \A k \in DOMAIN subs :
             subs'[k] # subs[k] =>
               /\ \A j \in DOMAIN subs \ {k} : subs'[j] = subs[j]
               /\ Len(subs') = Len(subs)
               /\ orders' = orders
               /\ balances' = balances
               /\ next_order_id' = next_order_id
               /\ locks' = locks
               /\ calls' = calls
        /\ (orders' # orders \/ next_order_id' # next_order_id
              \/ locks' # locks \/ calls' # calls
              \/ response'.op \in {"create_order", "cancel_order",
                                   "get_balance", "get_active_orders"}) =>
             subs' = subs]_vars
  /\ [](/\ Len(subs) = 2 =>
             /\ (subs[2].pc = "tick" /\ subs[2].ticks < MaxTicks) =>
                  ENABLED ProducerTick(2)
             /\ (subs[2].pc = "send"
                   /\ Len(subs[2].chan) < ChannelCapacity) =>
                  ENABLED (\E t \in Timestamps : ProducerSend(2, t))
        /\ calls[UnaryTask] # Idle => ENABLED TaskStep(UnaryTask)
        /\ calls[UnaryTask] = Idle =>
             /\ ENABLED (\E r \in TaskCancelOrderRequests :
                           CancelOrderBegin(UnaryTask, r))
             /\ ENABLED (\E r \in TaskGetActiveOrdersRequests :
                           GetActiveOrdersBegin(UnaryTask, r))
             /\ ENABLED (\E r \in TaskGetBalanceRequests :
                           GetBalanceBegin(UnaryTask, r))
             /\ next_order_id <= MaxOrders =>
                  ENABLED (\E r \in TaskCreateOrderRequests :
                             CreateOrderBegin(UnaryTask, r)))

\* while the first subscription's producer waits at its full channel, the
\* second subscription has delivered a quote and the task's cancel_order of
\* the order it created has just returned
C26_Witness ==
  /\ Len(subs) = 2
  /\ BlockedInSend(subs[1])
  /\ subs[2].delivered = 1
  /\ subs[2].pc = "tick"
  /\ response.op = "cancel_order" /\ response.code = "Ok"
  /\ orders[1].status = Cancelled

(***************************************************************************)
(* Properties of the blog server.                                          *)
(***************************************************************************)
\* C22: an update_post or delete_post call that returns while the post of
\* its id exists and has another author returns Forbidden (HTTP 403) and its
\* step leaves the posts table as it is; a call whose first query finds no
\* post of its id returns PostNotFound (HTTP 404) and changes nothing; and a
\* step that changes or removes a post is a step of an update_post or
\* delete_post call for that id made by the post's author.
C22_OnlyAuthorChangesPost ==
  [][/\ response'.op \in {"update_post", "delete_post"} =>
          LET call == response'.call IN
            /\ (call.id \in DOMAIN blog.posts
                  /\ blog.posts[call.id].author_id # call.user_id) =>
                 /\ response'.code = "Forbidden"
                 /\ response'.status = 403
                 /\ blog'.posts = blog.posts
            /\ (call.id \notin DOMAIN blog.posts
                  /\ blog.calls[response'.worker] = Idle) =>
                 /\ response'.code = "PostNotFound"
                 /\ response'.status = 404
                 /\ blog'.posts = blog.posts
     /\ \A id \in DOMAIN blog.posts :
          (id \notin DOMAIN blog'.posts
             \/ blog'.posts[id] # blog.posts[id]) =>
            \E w \in BlogWorkers :
              /\ blog.calls[w] # Idle
              /\ blog'.calls[w] # blog.calls[w]
              /\ blog.calls[w].op \in {"update_post", "delete_post"}
              /\ blog.calls[w].id = id
              /\ blog.calls[w].user_id = blog.posts[id].author_id]_vars

\* delete_post by a user who is not the author was refused after the author
\* had updated the post, which is in the table with its new title
C22_Witness ==
  /\ response.op = "delete_post"
  /\ response.code = "Forbidden"
  /\ response.status = 403
  /\ response.call.id \in DOMAIN blog.posts
  /\ blog.posts[response.call.id].title = "T2"
  /\ blog.posts[response.call.id].author_id # response.call.user_id


\* C23: no two rows of the users table have the same username, and a
\* register call that returns while a row with its username exists returns
\* a client error (an HTTP status from 400 to 499; UsernameExists when its
\* first query finds the row) and adds no row, so of two concurrent calls
\* with one username one succeeds and the other gets the client error.
C23_DuplicateUsernameIsClientError ==
  /\ [](\A i \in DOMAIN blog.users, j \in DOMAIN blog.users :
          blog.users[i].username = blog.users[j].username => i = j)
  /\ [][(response'.op = "register"
           /\ UsernameTaken(response'.call.req.username)) =>
          /\ response'.status \in 400 .. 499
          /\ blog.calls[response'.worker] = Idle =>
               response'.code = "UsernameExists"
          /\ blog'.users = blog.users]_vars


====
